---- MODULE Spec2Model ----
(***************************************************************************)
(* A model of gd-slack-utils (src/src/archivereader.py): the thread        *)
(* reconstruction of RethreadAction driven by walk_archive, the content    *)
(* tree parser (Block.from_data and what it dispatches to) and the emoji   *)
(* shortcode substitution of text leaves.                                  *)
(*                                                                         *)
(* Python strings are sequences of one-character strings, so that string   *)
(* comparison and regular-expression matching are computed, not assumed.   *)
(***************************************************************************)
EXTENDS Integers, Sequences, FiniteSets, TLC

VARIABLES
    threads,      \* RethreadAction.threads: dict ts -> Thread, in insertion order
    orphans,      \* RethreadAction.orphans: list of buffered replies
    msgs,         \* Context.msgs: the diagnostic log
    cur_file,     \* BaseAction.cur_file
    cur_channel,  \* BaseAction.cur_channel
    fed,          \* the Messages handed to on_message so far, in arrival order
    nfiles,       \* how many files of the archive walk_archive has opened
    finalized,    \* how often after_all has run
    raw,          \* the raw JSON value d handed to a from_data function
    result        \* what the call returned, or the exception it raised

vars == <<threads, orphans, msgs, cur_file, cur_channel, fed, nfiles, finalized, raw, result>>

(***************************************************************************)
(* Bounds of the model.                                                    *)
(***************************************************************************)
MaxMsgs == 3
\* the dicts (blocks, rich-text elements, list items, leaves) of a blocks payload
MaxNodes == 4
\* the characters of the text of a text leaf
MaxTextLen == 5
\* the characters of a raw text in the legacy grammar
MaxRawLen == 5
\* the channels of a channels array
MaxChannels == 2

(***************************************************************************)
(* Values.                                                                 *)
(***************************************************************************)
\* Python's None where a string (a sequence of characters) is expected.
None == <<"None">>

\* Python's None where a file path is expected.
NoFile == "None"

\* Timestamps of the stream: "9.0", "10.0", "10.5". As strings "10.0" < "10.5"
\* < "9.0"; as numbers 9.0 < 10.0 < 10.5.
TsSet == { <<"9", ".", "0">>, <<"1", "0", ".", "0">>, <<"1", "0", ".", "5">> }

UserIds == {"U1", "U2"}

\* Channel(id_, name, is_old_name, info)
Channel(id_, name, is_old_name) == [id |-> id_, name |-> name, is_old_name |-> is_old_name]

\* The value of cur_channel when Channels.from_name finds nothing (Python None).
NoChannel == [id |-> "None", name |-> "None", is_old_name |-> FALSE]

\* The placeholder channel of BaseAction.__init__ and after_file.
UnknownChannel == Channel("?", "?", FALSE)

\* Channels.by_name after parse_channels of a registry with two channels.
ChannelsByName == [general |-> Channel("C1", "general", FALSE), random |-> Channel("C2", "random", FALSE)]

\* Channels.from_name: dict.get
from_name(name) == IF name \in DOMAIN ChannelsByName THEN ChannelsByName[name] ELSE NoChannel

\* The files of the archive in the order of natural_sort_paths, each named by
\* its first path component, which archive_channel_extractor takes as the
\* channel name; "lost" is a directory that channels.json does not list.
ArchiveFiles == <<"general", "lost", "random">>

\* Message(type_, user, ts, thread_ts, ...): id is the object's identity, the
\* position of the record in the stream.
Message(id_, user, ts, thread_ts) == [id |-> id_, user |-> user, ts |-> ts, thread_ts |-> thread_ts]

\* Thread(message, replies, channel), stored under key ts.
Thread(key, message, replies, channel) == [key |-> key, message |-> message, replies |-> replies, channel |-> channel]

\* Context.warn
warn(log, type_, data) == Append(log, [level |-> "warn", type |-> type_, data |-> data])

(***************************************************************************)
(* Python string comparison and float().                                   *)
(***************************************************************************)
\* ord(c) for the characters of a timestamp
Ord(c) == CASE c = "." -> 46 [] c = "0" -> 48 [] c = "1" -> 49 [] c = "5" -> 53 [] c = "9" -> 57

\* a < b on str: by code point at the first difference, else the shorter first
StrLess(a, b) ==
    LET n == IF Len(a) < Len(b) THEN Len(a) ELSE Len(b)
        diff == {i \in 1..n : a[i] # b[i]}
    IN  IF diff = {} THEN Len(a) < Len(b)
        ELSE LET i == CHOOSE k \in diff : \A l \in diff : k <= l
             IN  Ord(a[i]) < Ord(b[i])

RECURSIVE Pow10(_)
Pow10(n) == IF n = 0 THEN 1 ELSE 10 * Pow10(n - 1)

\* the number of digits after the decimal point
FracLen(s) == Len(s) - (CHOOSE i \in 1..Len(s) : s[i] = ".")

RECURSIVE Mantissa(_)
\* the digits of s read as one integer, the decimal point skipped
Mantissa(s) ==
    IF s = <<>> THEN 0
    ELSE LET c == s[Len(s)]
             rest == SubSeq(s, 1, Len(s) - 1)
         IN  IF c = "." THEN Mantissa(rest) ELSE 10 * Mantissa(rest) + (Ord(c) - Ord("0"))

\* float(a) <= float(b)
NumLeq(a, b) == Mantissa(a) * Pow10(FracLen(b)) <= Mantissa(b) * Pow10(FracLen(a))

(***************************************************************************)
(* RethreadAction: the thread map is a Python dict, kept here as the       *)
(* sequence of its entries in insertion order.                             *)
(***************************************************************************)
\* ts in self.threads
HasKey(ths, ts) == \E i \in 1..Len(ths) : ths[i].key = ts

\* the position of the entry self.threads[ts]
KeyIndex(ths, ts) == CHOOSE i \in 1..Len(ths) : ths[i].key = ts

\* thread_ts is None or ts == thread_ts
IsRoot(msg) == msg.thread_ts = None \/ msg.ts = msg.thread_ts

\* on_message with the root replaced by a fresh Thread: the replies are lost
on_message_fresh_thread(st, msg, channel) ==
    IF IsRoot(msg)
    THEN IF HasKey(st.threads, msg.ts)
         THEN [st EXCEPT !.threads[KeyIndex(st.threads, msg.ts)] = Thread(msg.ts, msg, <<>>, channel)]
         ELSE [st EXCEPT !.threads = Append(@, Thread(msg.ts, msg, <<>>, channel))]
    ELSE IF ~HasKey(st.threads, msg.thread_ts)
         THEN [st EXCEPT !.orphans = Append(@, msg)]
         ELSE [st EXCEPT !.threads[KeyIndex(st.threads, msg.thread_ts)].replies = Append(@, msg)]

\* on_message that appends a reply to the first thread of the map
on_message_wrong_thread(st, msg, channel) ==
    IF IsRoot(msg)
    THEN IF HasKey(st.threads, msg.ts)
         THEN [st EXCEPT !.threads[KeyIndex(st.threads, msg.ts)].message = msg]
         ELSE [st EXCEPT !.threads = Append(@, Thread(msg.ts, msg, <<>>, channel))]
    ELSE IF ~HasKey(st.threads, msg.thread_ts)
         THEN [st EXCEPT !.orphans = Append(@, msg)]
         ELSE [st EXCEPT !.threads[1].replies = Append(@, msg)]

\* RethreadAction.on_message on st = [threads, orphans, msgs], with
\* self.cur_channel = channel
on_message(st, msg, channel) ==
    IF IsRoot(msg)
    THEN IF HasKey(st.threads, msg.ts)
         THEN LET i == KeyIndex(st.threads, msg.ts)
                  \* cur_thread.message = msg
                  cur_thread == [st.threads[i] EXCEPT !.message = msg]
              IN  \* the comparison reads cur_thread.message after the assignment
                  IF msg.user # cur_thread.message.user
                  THEN [st EXCEPT !.threads[i] = cur_thread,
                                  !.msgs = warn(@, "duplicated-thread-ts", [message |-> msg])]
                  ELSE [st EXCEPT !.threads[i] = cur_thread]
         ELSE [st EXCEPT !.threads = Append(@, Thread(msg.ts, msg, <<>>, channel))]
    ELSE IF ~HasKey(st.threads, msg.thread_ts)
         THEN [st EXCEPT !.orphans = Append(@, msg)]
         ELSE [st EXCEPT !.threads[KeyIndex(st.threads, msg.thread_ts)].replies = Append(@, msg)]

\* the body of the loop with the orphan appended to its thread twice
replay_orphan_twice(st, msg) ==
    IF HasKey(st.threads, msg.thread_ts)
    THEN [st EXCEPT !.threads[KeyIndex(st.threads, msg.thread_ts)].replies = Append(Append(@, msg), msg)]
    ELSE [st EXCEPT !.msgs = warn(@, "orphan-msg", [message |-> msg])]

\* the body of the loop of process_orphans, for one orphan
replay_orphan(st, msg) ==
    IF HasKey(st.threads, msg.thread_ts)
    THEN [st EXCEPT !.threads[KeyIndex(st.threads, msg.thread_ts)].replies = Append(@, msg)]
    ELSE [st EXCEPT !.msgs = warn(@, "orphan-msg", [message |-> msg])]

RECURSIVE replay_orphans(_, _)
\* for msg in self.orphans: ...
replay_orphans(st, todo) ==
    IF todo = <<>> THEN st ELSE replay_orphans(replay_orphan(st, Head(todo)), Tail(todo))

\* process_orphans that drops every orphan with a diagnostic
process_orphans_drop_all(st) ==
    [st EXCEPT !.msgs = @ \o [i \in 1..Len(st.orphans) |->
                                [level |-> "warn", type |-> "orphan-msg", data |-> [message |-> st.orphans[i]]]]]

RECURSIVE replay_orphans_front(_, _)
replay_orphans_front(st, todo) ==
    IF todo = <<>> THEN st
    ELSE LET msg == Head(todo)
             nxt == IF HasKey(st.threads, msg.thread_ts)
                    THEN [st EXCEPT !.threads[KeyIndex(st.threads, msg.thread_ts)].replies = <<msg>> \o @]
                    ELSE [st EXCEPT !.msgs = warn(@, "orphan-msg", [message |-> msg])]
         IN  replay_orphans_front(nxt, Tail(todo))

\* process_orphans that puts a replayed orphan in front of the replies
process_orphans_front(st) == replay_orphans_front(st, st.orphans)

\* process_orphans that appends every orphan and never warns
process_orphans_silent(st) ==
    LET RECURSIVE go(_, _)
        go(s, todo) ==
            IF todo = <<>> THEN s
            ELSE go(IF HasKey(s.threads, Head(todo).thread_ts)
                    THEN [s EXCEPT !.threads[KeyIndex(s.threads, Head(todo).thread_ts)].replies = Append(@, Head(todo))]
                    ELSE s, Tail(todo))
    IN  go(st, st.orphans)

\* RethreadAction.process_orphans; self.orphans is left as it is
process_orphans(st) == replay_orphans(st, st.orphans)

RECURSIVE insert_by_ts(_, _)
\* one step of a stable insertion sort by key=lambda x: x.message.ts
insert_by_ts(sorted, th) ==
    IF sorted = <<>> THEN <<th>>
    ELSE IF StrLess(th.message.ts, Head(sorted).message.ts)
         THEN <<th>> \o sorted
         ELSE <<Head(sorted)>> \o insert_by_ts(Tail(sorted), th)

RECURSIVE sorted_by_ts(_)
\* sorted(values, key=lambda x: x.message.ts)
sorted_by_ts(values) ==
    IF values = <<>> THEN <<>>
    ELSE insert_by_ts(sorted_by_ts(SubSeq(values, 1, Len(values) - 1)), values[Len(values)])

\* the threads in the order of the dict, the sort left out
unsorted_messages(ths) == ths

\* RethreadAction.get_sorted_messages_by_ts
get_sorted_messages_by_ts(ths) == sorted_by_ts(ths)

(***************************************************************************)
(* The walk of the archive with a RethreadAction.                          *)
(***************************************************************************)
State == [threads |-> threads, orphans |-> orphans, msgs |-> msgs]

\* no from_data call is under way
NoData == [blocks |-> <<>>]

\* no from_data call has returned
NotRun == [status |-> "none"]

\* BaseAction.__init__ and RethreadAction.__init__, with the empty log of a
\* new Context
InitAction ==
    /\ threads = <<>>
    /\ orphans = <<>>
    /\ msgs = <<>>
    /\ cur_file = NoFile
    /\ cur_channel = UnknownChannel
    /\ fed = <<>>
    /\ nfiles = 0
    /\ finalized = 0

Init ==
    /\ InitAction
    /\ raw = NoData
    /\ result = NotRun

\* BaseAction.before_file, for the next file of walk_archive
before_file ==
    /\ finalized = 0
    /\ cur_file = NoFile
    /\ nfiles < Len(ArchiveFiles)
    /\ cur_file' = ArchiveFiles[nfiles + 1]
    /\ cur_channel' = from_name(ArchiveFiles[nfiles + 1])
    /\ nfiles' = nfiles + 1
    /\ UNCHANGED <<threads, orphans, msgs, fed, finalized, raw, result>>

\* BaseAction.after_file
after_file ==
    /\ cur_file # NoFile
    /\ cur_file' = NoFile
    /\ cur_channel' = UnknownChannel
    /\ UNCHANGED <<threads, orphans, msgs, fed, nfiles, finalized, raw, result>>

\* BaseAction.on_msg for a record of type "message": RethreadAction.on_message
\* with the Message built from it
OnMessage ==
    /\ cur_file # NoFile
    /\ Len(fed) < MaxMsgs
    /\ \E ts \in TsSet, thread_ts \in TsSet \cup {None}, user \in UserIds :
          LET msg == Message(Len(fed) + 1, user, ts, thread_ts)
              st == on_message(State, msg, cur_channel)
          IN  /\ threads' = st.threads
              /\ orphans' = st.orphans
              /\ msgs' = st.msgs
              /\ fed' = Append(fed, msg)
    /\ UNCHANGED <<cur_file, cur_channel, nfiles, finalized, raw, result>>

\* RethreadAction.after_all, once every file is read
after_all ==
    /\ cur_file = NoFile
    /\ nfiles = Len(ArchiveFiles)
    /\ finalized = 0
    /\ LET st == process_orphans(State)
       IN  /\ threads' = st.threads
           /\ orphans' = st.orphans
           /\ msgs' = st.msgs
    /\ finalized' = finalized + 1
    /\ UNCHANGED <<cur_file, cur_channel, fed, nfiles, raw, result>>

Next == before_file \/ OnMessage \/ after_file \/ after_all

Spec == Init /\ [][Next]_vars

(***************************************************************************)
(* What the stream says, read from the history fed alone.                  *)
(***************************************************************************)
\* the elements of a sequence
Range(seq) == {seq[i] : i \in 1..Len(seq)}

\* m is a reply to the root with timestamp k
IsReplyTo(m, k) == ~IsRoot(m) /\ m.thread_ts = k

\* the positions of the stream holding a root with timestamp k
RootsFed(k) == {i \in 1..Len(fed) : IsRoot(fed[i]) /\ fed[i].ts = k}

\* how many diagnostics of type type_ the log holds for message m
DiagCount(type_, m) == Cardinality({i \in 1..Len(msgs) : msgs[i].type = type_ /\ msgs[i].data = [message |-> m]})

\* the threads whose reply sequence holds m
ThreadsHolding(m) == {i \in 1..Len(threads) : m \in Range(threads[i].replies)}

\* RethreadAction.__init__
EmptyState == [threads |-> <<>>, orphans |-> <<>>, msgs |-> <<>>]

RECURSIVE feed_all(_, _, _)
\* on_message for each message of stream, in order
feed_all(st, stream, channel) ==
    IF stream = <<>> THEN st
    ELSE feed_all(on_message(st, Head(stream), channel), Tail(stream), channel)

\* the stream is one root and replies to it, all timestamps distinct
OneRootStream(r) ==
    /\ r \in 1..Len(fed)
    /\ IsRoot(fed[r])
    /\ \A j \in 1..Len(fed) : j # r => IsReplyTo(fed[j], fed[r].ts)
    /\ \A i, j \in 1..Len(fed) : i # j => fed[i].ts # fed[j].ts

\* the same records, the root first and the replies after it
RootFirst(r) ==
    LET NotTheRoot(m) == m # fed[r]
    IN  <<fed[r]>> \o SelectSeq(fed, NotTheRoot)

\* C1: for one root and n replies to it (timestamps distinct), fed in any
\* order and followed by process_orphans, there is exactly one thread, its
\* root is that root, and its replies are, as a set, the replies of the build
\* that is fed the root first and the replies after it.
C1_ShuffleSameThread ==
    \A r \in 1..Len(fed) :
        (finalized = 1 /\ OneRootStream(r)) =>
            LET ref == process_orphans(feed_all(EmptyState, RootFirst(r), cur_channel))
            IN  /\ Len(threads) = 1
                /\ Len(ref.threads) = 1
                /\ threads[1].message = fed[r]
                /\ ref.threads[1].message = fed[r]
                /\ Range(threads[1].replies) = Range(ref.threads[1].replies)
                /\ Len(threads[1].replies) = Len(ref.threads[1].replies)

\* C1 witness: a finalized stream of two replies followed by their root
C1_Witness ==
    /\ finalized = 1
    /\ Len(fed) = 3
    /\ OneRootStream(3)
    /\ Len(threads) = 1
    /\ Len(threads[1].replies) = 2

\* C2: in every state each thread is stored under the ts of its root message,
\* that message is a root, and every reply of the thread has that ts as its
\* thread_ts.
C2_RepliesBelongToRoot ==
    \A i \in 1..Len(threads) :
        /\ threads[i].message.ts = threads[i].key
        /\ IsRoot(threads[i].message)
        /\ \A j \in 1..Len(threads[i].replies) : threads[i].replies[j].thread_ts = threads[i].key

\* C2 witness: two threads, the second holding a reply appended on arrival
C2_Witness ==
    /\ Len(threads) = 2
    /\ Len(threads[2].replies) = 1
    /\ orphans = <<>>

\* C3: after process_orphans an orphan whose root never appeared in the stream
\* is in no thread and has exactly one "orphan-msg" diagnostic; an orphan whose
\* root appeared is in that root's thread, once, and has no diagnostic.
C3_OrphansResolved ==
    finalized = 1 =>
        \A o \in Range(orphans) :
            IF RootsFed(o.thread_ts) = {}
            THEN /\ ThreadsHolding(o) = {}
                 /\ DiagCount("orphan-msg", o) = 1
            ELSE /\ \A i \in ThreadsHolding(o) : threads[i].key = o.thread_ts
                 /\ \E i \in 1..Len(threads) :
                       /\ threads[i].key = o.thread_ts
                       /\ Cardinality({j \in 1..Len(threads[i].replies) : threads[i].replies[j] = o}) = 1
                 /\ DiagCount("orphan-msg", o) = 0

\* C3 witness: after process_orphans, one orphan was dropped and one replayed
C3_Witness ==
    /\ finalized = 1
    /\ \E o1, o2 \in Range(orphans) :
          /\ RootsFed(o1.thread_ts) = {}
          /\ RootsFed(o2.thread_ts) # {}

\* C4: a root whose ts is already a key of the map replaces the stored root of
\* that thread and nothing else: the replies and the channel of the thread, every
\* other thread and the number of threads are unchanged.
C4_RootReplacementFrame ==
    [][ (/\ Len(fed') = Len(fed) + 1
         /\ IsRoot(fed'[Len(fed')])
         /\ HasKey(threads, fed'[Len(fed')].ts))
        => (/\ Len(threads') = Len(threads)
            /\ \A i \in 1..Len(threads) :
                  threads'[i] = IF threads[i].key = fed'[Len(fed')].ts
                                THEN [threads[i] EXCEPT !.message = fed'[Len(fed')]]
                                ELSE threads[i]
            /\ Cardinality({i \in 1..Len(threads') : threads'[i].key = fed'[Len(fed')].ts}) = 1
            /\ orphans' = orphans) ]_vars

\* C4 witness: a root, a reply to it, then a second root with the same ts read
\* from another channel's file; the thread keeps its reply and its channel
C4_Witness ==
    /\ Len(fed) = 3
    /\ IsRoot(fed[1]) /\ IsRoot(fed[3]) /\ fed[1].ts = fed[3].ts
    /\ IsReplyTo(fed[2], fed[1].ts)
    /\ Len(threads) = 1
    /\ threads[1].message = fed[3]
    /\ threads[1].replies = <<fed[2]>>
    /\ cur_file # NoFile
    /\ threads[1].channel # cur_channel

\* C5: a root that replaces a root with the same ts has one
\* "duplicated-thread-ts" diagnostic when its author differs from the author of
\* the root it replaces, and none when the authors are the same.
C5_DuplicateDiagnostic ==
    \A j \in 1..Len(fed) :
        LET earlier == {i \in RootsFed(fed[j].ts) : i < j}
        IN  (IsRoot(fed[j]) /\ earlier # {}) =>
                LET p == CHOOSE i \in earlier : \A l \in earlier : l <= i
                IN  DiagCount("duplicated-thread-ts", fed[j]) = IF fed[p].user # fed[j].user THEN 1 ELSE 0

\* C6 as claimed: in a finalized thread a reply precedes another exactly when
\* it was fed first, orphans included.
C6_ArrivalOrder ==
    finalized = 1 =>
        \A i \in 1..Len(threads) :
            \A a, b \in 1..Len(threads[i].replies) :
                a < b <=> threads[i].replies[a].id < threads[i].replies[b].id

\* C6 as amended: the replies of a finalized thread are the replies that
\* arrived after their root, in arrival order, followed by the replies that
\* arrived before it (the replayed orphans), in arrival order.
C6_DirectThenOrphans ==
    finalized = 1 =>
        \A i \in 1..Len(threads) :
            LET k == threads[i].key
                first == CHOOSE r \in RootsFed(k) : \A l \in RootsFed(k) : r <= l
                Direct(m) == IsReplyTo(m, k) /\ first < m.id
                Buffered(m) == IsReplyTo(m, k) /\ m.id < first
            IN  /\ RootsFed(k) # {}
                /\ threads[i].replies = SelectSeq(fed, Direct) \o SelectSeq(fed, Buffered)

\* C6 witness: a finalized thread whose replayed orphan was fed before the
\* reply it follows
C6_Witness ==
    /\ finalized = 1
    /\ \E i \in 1..Len(threads) :
          /\ Len(threads[i].replies) = 2
          /\ threads[i].replies[2].id < threads[i].replies[1].id

\* the two timestamps have the same fixed-width format: as many digits before
\* the decimal point and as many after it
SameWidth(a, b) == Len(a) = Len(b) /\ FracLen(a) = FracLen(b)

\* C7: get_sorted_messages_by_ts returns every thread of the map exactly once,
\* in non-decreasing order of the root's ts compared as strings, which for two
\* timestamps of the same fixed width is their numeric order.
C7_SortedThreads ==
    LET s == get_sorted_messages_by_ts(threads)
    IN  /\ Len(s) = Len(threads)
        /\ \A i \in 1..Len(threads) : Cardinality({j \in 1..Len(s) : s[j] = threads[i]}) = 1
        /\ \A i, j \in 1..Len(s) :
              i < j => /\ ~StrLess(s[j].message.ts, s[i].message.ts)
                       /\ SameWidth(s[i].message.ts, s[j].message.ts)
                             => NumLeq(s[i].message.ts, s[j].message.ts)

\* C7 witness: three threads inserted as "9.0", "10.5", "10.0", which sorts
\* to "10.0", "10.5", "9.0"
C7_Witness ==
    /\ Len(threads) = 3
    /\ threads[1].key = <<"9", ".", "0">>
    /\ threads[2].key = <<"1", "0", ".", "5">>
    /\ threads[3].key = <<"1", "0", ".", "0">>
    /\ get_sorted_messages_by_ts(threads) = <<threads[3], threads[2], threads[1]>>

(***************************************************************************)
(* RE_EMOJI_SHORTCODE.sub in a text leaf.  The text is a sequence of        *)
(* characters over " ", ":", ".", "a", "b": whitespace, the colon, a         *)
(* character that is neither, and two characters of [a-zA-Z0-9_+-].         *)
(***************************************************************************)
TextChars == {" ", ":", ".", "a", "b"}

\* \s
IsSpace(c) == c = " "

\* [a-zA-Z0-9_+-]
IsNameChar(c) == c \in {"a", "b"}

\* Context.shortcode_to_emoji: "a" and "ab" are shortcodes of the table, the
\* other names are not; "E", "F", "G" stand for the characters of an emoji
ShortcodeToEmoji == (<<"a">> :> <<"E">>) @@ (<<"a", "b">> :> <<"F", "G">>)

RECURSIVE NameEnd(_, _)
\* the position after the longest run of [a-zA-Z0-9_+-] that starts at q
NameEnd(s, q) == IF q <= Len(s) /\ IsNameChar(s[q]) THEN NameEnd(s, q + 1) ELSE q

\* no match of the regular expression
NoMatch == [found |-> FALSE]

\* :([a-zA-Z0-9_+-]+):(?:\s|:|$) matched at position p: the group and the
\* position after the match
MatchToken(s, p) ==
    IF p > Len(s) \/ s[p] # ":" THEN NoMatch
    ELSE LET q == NameEnd(s, p + 1)
         IN  IF q = p + 1 \/ q > Len(s) \/ s[q] # ":" THEN NoMatch
             ELSE IF q + 1 <= Len(s) /\ (IsSpace(s[q + 1]) \/ s[q + 1] = ":")
                  THEN [found |-> TRUE, group |-> SubSeq(s, p + 1, q - 1), end |-> q + 2]
                  ELSE IF q = Len(s)
                       THEN [found |-> TRUE, group |-> SubSeq(s, p + 1, q - 1), end |-> q + 1]
                       ELSE NoMatch

\* RE_EMOJI_SHORTCODE matched at position i: the alternatives \s, ":" and ^ of
\* the leading group in that order, the first to let the rest match
MatchAt(s, i) ==
    LET consumed == IF i <= Len(s) /\ (IsSpace(s[i]) \/ s[i] = ":") THEN MatchToken(s, i + 1) ELSE NoMatch
    IN  IF consumed.found THEN consumed
        ELSE IF i = 1 THEN MatchToken(s, 1) ELSE NoMatch

\* replace_match: the emoji of the table, or the shortcode between colons
replace_match(m) ==
    IF m.group \in DOMAIN ShortcodeToEmoji THEN ShortcodeToEmoji[m.group] ELSE <<":">> \o m.group \o <<":">>

RECURSIVE sub_from(_, _)
\* re.sub from position i on: the leftmost match is replaced whole, the
\* search goes on after it, and a character of no match is copied
sub_from(s, i) ==
    IF i > Len(s) THEN <<>>
    ELSE LET m == MatchAt(s, i)
         IN  IF m.found THEN replace_match(m) \o sub_from(s, m.end)
             ELSE <<s[i]>> \o sub_from(s, i + 1)

\* RE_EMOJI_SHORTCODE.sub(replace_match, text)
emoji_sub(text) == sub_from(text, 1)

(***************************************************************************)
(* The content tree parser.  A JSON dict is a record, a missing key a      *)
(* missing field; a from_data function returns Ok(node, log) or            *)
(* Raise(exc, log), log being Context.msgs after the call.                 *)
(***************************************************************************)
\* key in d
Has(d, key) == key \in DOMAIN d

Ok(node, log) == [ok |-> TRUE, node |-> node, log |-> log]

Raise(exc, log) == [ok |-> FALSE, exc |-> exc, log |-> log]

\* the keyword parameters of Style.__init__
StyleKeys == {"italic", "code", "bold", "strike", "unlink"}

\* d.get("style", {})
get_style(d) == IF Has(d, "style") THEN d.style ELSE <<>>

\* Style.from_data: cls(**d) is a TypeError for a key that is no parameter
Style_from_data(d) ==
    IF DOMAIN d \subseteq StyleKeys
    THEN [ok |-> TRUE, node |-> [k \in StyleKeys |-> IF k \in DOMAIN d THEN d[k] ELSE FALSE]]
    ELSE [ok |-> FALSE, exc |-> "TypeError"]

\* Users.by_id after parse_users and add_slackbot
UsersById == [U1 |-> [cls |-> "User", id |-> "U1", name |-> "alice"],
              U2 |-> [cls |-> "User", id |-> "U2", name |-> "bob"],
              USLACKBOT |-> [cls |-> "Bot", id |-> "USLACKBOT", name |-> "slackbot"]]

\* Channels.by_id after parse_channels
ChannelsById == [C1 |-> Channel("C1", "general", FALSE), C2 |-> Channel("C2", "random", FALSE)]

\* RichTextSectionElementLink.from_data
Link_from_data(d, log) ==
    IF ~Has(d, "url") THEN Raise("KeyError", log)
    ELSE LET style == Style_from_data(get_style(d))
             text == IF Has(d, "text") /\ d.text # <<>> THEN d.text ELSE d.url
         IN  IF ~style.ok THEN Raise(style.exc, log)
             ELSE Ok([cls |-> "RichTextSectionElementLink", url |-> d.url, text |-> text, style |-> style.node], log)

\* RichTextSectionElementText.from_data
Text_from_data(d, log) ==
    IF ~Has(d, "text") THEN Raise("KeyError", log)
    ELSE LET text == emoji_sub(d.text)
             style == Style_from_data(get_style(d))
         IN  IF ~style.ok THEN Raise(style.exc, log)
             ELSE Ok([cls |-> "RichTextSectionElementText", text |-> text, style |-> style.node], log)

\* RichTextSectionElementEmoji.from_data
Emoji_from_data(d, log) ==
    IF ~Has(d, "name") THEN Raise("KeyError", log)
    ELSE Ok([cls |-> "RichTextSectionElementEmoji", name |-> d.name], log)

\* RichTextSectionElementChannel.from_data
Channel_from_data(d, log) ==
    IF ~Has(d, "channel_id") THEN Raise("KeyError", log)
    ELSE LET found == d.channel_id \in DOMAIN ChannelsById
             channel == IF found THEN ChannelsById[d.channel_id] ELSE Channel(d.channel_id, d.channel_id, FALSE)
             log1 == IF found THEN log ELSE warn(log, "channel-id-not-found", [channel_id |-> d.channel_id])
             style == Style_from_data(get_style(d))
         IN  IF ~style.ok THEN Raise(style.exc, log1)
             ELSE Ok([cls |-> "RichTextSectionElementChannel", channel |-> channel, style |-> style.node], log1)

\* RichTextSectionElementUser.from_data
User_from_data(d, log) ==
    IF ~Has(d, "user_id") THEN Raise("KeyError", log)
    ELSE LET found == d.user_id \in DOMAIN UsersById
             user == IF found THEN UsersById[d.user_id] ELSE [cls |-> "User", id |-> d.user_id, name |-> d.user_id]
             log1 == IF found THEN log ELSE warn(log, "user-id-not-found", [user_id |-> d.user_id])
             style == Style_from_data(get_style(d))
         IN  IF ~style.ok THEN Raise(style.exc, log1)
             ELSE Ok([cls |-> "RichTextSectionElementUser", user |-> user, style |-> style.node], log1)

\* RichTextSectionElementBroadcast.from_data
Broadcast_from_data(d, log) ==
    IF ~Has(d, "range") THEN Raise("KeyError", log)
    ELSE Ok([cls |-> "RichTextSectionElementBroadcast", range |-> d.range], log)

\* RichTextSectionElementColor.from_data
Color_from_data(d, log) ==
    IF ~Has(d, "value") THEN Raise("KeyError", log)
    ELSE Ok([cls |-> "RichTextSectionElementColor", value |-> d.value], log)

\* the discriminators RichTextSectionElement.from_data matches
SectionElementTypes == {"link", "text", "emoji", "channel", "user", "broadcast", "color"}

\* RichTextSectionElement.from_data
RichTextSectionElement_from_data(d, log) ==
    IF Has(d, "type") /\ d.type \in SectionElementTypes
    THEN CASE d.type = "link" -> Link_from_data(d, log)
           [] d.type = "text" -> Text_from_data(d, log)
           [] d.type = "emoji" -> Emoji_from_data(d, log)
           [] d.type = "channel" -> Channel_from_data(d, log)
           [] d.type = "user" -> User_from_data(d, log)
           [] d.type = "broadcast" -> Broadcast_from_data(d, log)
           [] d.type = "color" -> Color_from_data(d, log)
    ELSE Ok([cls |-> "RichTextSectionElementUnknown", data |-> d],
            warn(log, "unknown-rich-text-section-type", [section |-> d]))

\* d.get("elements", [])
get_elements(d) == IF Has(d, "elements") THEN d.elements ELSE <<>>

\* a list comprehension after one more from_data call returned r: the node
\* is appended to the list acc holds, an exception ends the comprehension
collect(acc, r) == IF r.ok THEN Ok(Append(acc.node, r.node), r.log) ELSE r

\* cls(elements), unless the comprehension r raised
with_elements(cls, r) == IF r.ok THEN Ok([cls |-> cls, elements |-> r.node], r.log) ELSE r

RECURSIVE section_elements_from_data(_, _)
\* [RichTextSectionElement.from_data(e, ctx) for e in ...]: in order, ended
\* by the first exception; acc is the comprehension so far
section_elements_from_data(es, acc) ==
    IF es = <<>> \/ ~acc.ok THEN acc
    ELSE section_elements_from_data(Tail(es), collect(acc, RichTextSectionElement_from_data(Head(es), acc.log)))

\* RichTextSection.from_data, RichTextQuote.from_data and
\* RichTextPreformatted.from_data, which differ in the class they build
RichTextSection_from_data(cls, d, log) ==
    with_elements(cls, section_elements_from_data(get_elements(d), Ok(<<>>, log)))

RECURSIVE list_items_from_data(_, _)
\* [RichTextSection.from_data(e, ctx) for e in d.get("elements", [])]: the
\* type of e is not read
list_items_from_data(es, acc) ==
    IF es = <<>> \/ ~acc.ok THEN acc
    ELSE list_items_from_data(Tail(es), collect(acc, RichTextSection_from_data("RichTextSection", Head(es), acc.log)))

\* cls(elements, style), unless the comprehension r raised
with_items(d, r) ==
    IF r.ok
    THEN Ok([cls |-> "RichTextList", elements |-> r.node,
             list_style |-> IF Has(d, "style") THEN d.style ELSE "bullet"], r.log)
    ELSE r

\* RichTextList.from_data
RichTextList_from_data(d, log) ==
    with_items(d, list_items_from_data(get_elements(d), Ok(<<>>, log)))

\* the discriminators RichTextElement.from_data matches
RichTextElementTypes == {"rich_text_section", "rich_text_list", "rich_text_quote", "rich_text_preformatted"}

\* RichTextElement.from_data
RichTextElement_from_data(d, log) ==
    IF Has(d, "type") /\ d.type \in RichTextElementTypes
    THEN CASE d.type = "rich_text_section" -> RichTextSection_from_data("RichTextSection", d, log)
           [] d.type = "rich_text_list" -> RichTextList_from_data(d, log)
           [] d.type = "rich_text_quote" -> RichTextSection_from_data("RichTextQuote", d, log)
           [] d.type = "rich_text_preformatted" -> RichTextSection_from_data("RichTextPreformatted", d, log)
    ELSE Ok([cls |-> "RichTextUnknown", data |-> d],
            warn(log, "unknown-rich-text-element-type", [element |-> d]))

RECURSIVE elements_from_data(_, _)
\* [RichTextElement.from_data(e, ctx) for e in d.get("elements", [])]
elements_from_data(es, acc) ==
    IF es = <<>> \/ ~acc.ok THEN acc
    ELSE elements_from_data(Tail(es), collect(acc, RichTextElement_from_data(Head(es), acc.log)))

\* BlockRichText.from_data
BlockRichText_from_data(d, log) ==
    with_elements("BlockRichText", elements_from_data(get_elements(d), Ok(<<>>, log)))

\* the discriminators Block.from_data matches
BlockTypes == {"rich_text", "section", "context", "actions"}

\* Block.from_data
Block_from_data(d, log) ==
    IF Has(d, "type") /\ d.type \in BlockTypes
    THEN CASE d.type = "rich_text" -> BlockRichText_from_data(d, log)
           [] d.type = "section" -> Ok([cls |-> "BlockSection"], log)
           [] d.type = "context" -> Ok([cls |-> "BlockContext"], log)
           [] d.type = "actions" -> Ok([cls |-> "BlockActions", data |-> d], log)
    ELSE Ok([cls |-> "BlockUnknown", data |-> d], warn(log, "unknown-block-type", [block |-> d]))

RECURSIVE blocks_from_data(_, _)
\* blocks = [Block.from_data(block, self) for block in raw_blocks]
blocks_from_data(bs, acc) ==
    IF bs = <<>> \/ ~acc.ok THEN acc
    ELSE blocks_from_data(Tail(bs), collect(acc, Block_from_data(Head(bs), acc.log)))

(***************************************************************************)
(* The legacy text grammar: parse_raw_slack_text_field_to_json.            *)
(***************************************************************************)
RECURSIVE Join(_)
\* the Python str of a sequence of characters, where the model holds an id
\* or a range as one string
Join(cs) == IF cs = <<>> THEN "" ELSE Head(cs) \o Join(Tail(cs))

\* s.split("|")[0]: s up to its first "|"
before_bar(s) ==
    IF \E i \in 1..Len(s) : s[i] = "|"
    THEN SubSeq(s, 1, (CHOOSE i \in 1..Len(s) : s[i] = "|" /\ \A k \in 1..(i - 1) : s[k] # "|") - 1)
    ELSE s

\* s.split("|", 1)[1]: s after its first "|"
after_bar(s) ==
    SubSeq(s, (CHOOSE i \in 1..Len(s) : s[i] = "|" /\ \A k \in 1..(i - 1) : s[k] # "|") + 1, Len(s))

\* parse_element of parse_raw_slack_text_field_to_json
parse_element(element) ==
    IF element # <<>> /\ Head(element) = "@"
    THEN [type |-> "user", user_id |-> Join(before_bar(Tail(element)))]
    ELSE IF element # <<>> /\ Head(element) = "#"
    THEN [type |-> "channel", channel_id |-> Join(before_bar(Tail(element)))]
    ELSE IF element # <<>> /\ Head(element) = "!"
    THEN [type |-> "broadcast", range |-> Join(Tail(element))]
    ELSE IF \E i \in 1..Len(element) : element[i] = "|"
    THEN [type |-> "link", url |-> before_bar(element), text |-> after_bar(element)]
    ELSE [type |-> "link", url |-> element]

\* where RE_BETWEEN_LT_AND_GT = <(.*?)> can match at or after offset pos: a
\* "<" with a ">" after it and no line break between them ("." matches no
\* "\n")
match_starts(text, pos) ==
    {i \in (pos + 1)..Len(text) :
        /\ text[i] = "<"
        /\ \E j \in (i + 1)..Len(text) : text[j] = ">" /\ \A k \in (i + 1)..(j - 1) : text[k] \notin {">", "\n"}}

\* the end of the match that starts at character i: the first ">" after it
match_end(text, i) == CHOOSE j \in (i + 1)..Len(text) : text[j] = ">" /\ \A k \in (i + 1)..(j - 1) : text[k] # ">"

\* the first character of the next match of finditer
next_start(text, pos) == CHOOSE i \in match_starts(text, pos) : \A k \in match_starts(text, pos) : i <= k

\* {"type": "text", "text": ...}
text_element(chars) == [type |-> "text", text |-> chars]

\* parsed_elements after the text before a match, if any, is appended
with_text_before(text, last_end, i, parsed) ==
    IF i - 1 > last_end THEN Append(parsed, text_element(SubSeq(text, last_end + 1, i - 1))) ELSE parsed

RECURSIVE finditer_loop_no_trailing(_, _, _)
\* finditer_loop without the text after the last match
finditer_loop_no_trailing(text, last_end, parsed) ==
    IF match_starts(text, last_end) = {}
    THEN parsed
    ELSE finditer_loop_no_trailing(text, match_end(text, next_start(text, last_end)),
                                   Append(with_text_before(text, last_end, next_start(text, last_end), parsed),
                                          parse_element(SubSeq(text, next_start(text, last_end) + 1,
                                                               match_end(text, next_start(text, last_end)) - 1))))

RECURSIVE finditer_loop(_, _, _)
\* the loop over finditer and the trailing text after it
finditer_loop(text, last_end, parsed) ==
    IF match_starts(text, last_end) = {}
    THEN IF last_end < Len(text) THEN Append(parsed, text_element(SubSeq(text, last_end + 1, Len(text)))) ELSE parsed
    ELSE finditer_loop(text, match_end(text, next_start(text, last_end)),
                       Append(with_text_before(text, last_end, next_start(text, last_end), parsed),
                              parse_element(SubSeq(text, next_start(text, last_end) + 1,
                                                   match_end(text, next_start(text, last_end)) - 1))))

\* parse_raw_slack_text_field_to_json
parse_raw_slack_text_field_to_json(text) == finditer_loop(text, 0, <<>>)

\* MessageType.from_subtype
from_subtype(d) ==
    IF ~Has(d, "subtype") THEN "message"
    ELSE IF d.subtype \in {"bot_message", "channel_join", "channel_name", "channel_purpose", "channel_topic",
                           "file_comment", "me_message", "reply_broadcast", "thread_broadcast", "tombstone"}
         THEN d.subtype
         ELSE "unknown"

\* Python's None where a user id or name is expected
NoneId == "None"

\* AnonymousUser()
AnonymousUser == [cls |-> "AnonymousUser", id |-> NoneId, name |-> NoneId]

\* d.get(key) for a key that holds an id or a name
get_id(d, key) == IF Has(d, key) THEN d[key] ELSE NoneId

\* resolve_user with the diagnostic of a missing author also recorded for the
\* records that carry the limit flag
resolve_user_flag_ignored(d, log) ==
    IF ~Has(d, "user")
    THEN IF from_subtype(d) = "bot_message"
         THEN [user |-> [cls |-> "Bot", id |-> get_id(d, "bot_id"), name |-> get_id(d, "username")], log |-> log]
         ELSE IF from_subtype(d) = "file_comment"
              THEN [user |-> AnonymousUser, log |-> log]
              ELSE [user |-> AnonymousUser, log |-> warn(log, "user-id-is-none", [message |-> d])]
    ELSE IF d.user \in DOMAIN UsersById
         THEN [user |-> UsersById[d.user], log |-> log]
         ELSE [user |-> AnonymousUser, log |-> warn(log, "user-id-not-found", [user_id |-> d.user])]

\* the author of message_from_data and the log after resolving it
resolve_user(d, log) ==
    IF ~Has(d, "user")
    THEN IF from_subtype(d) = "bot_message"
         THEN [user |-> [cls |-> "Bot", id |-> get_id(d, "bot_id"), name |-> get_id(d, "username")], log |-> log]
         ELSE IF from_subtype(d) = "file_comment"
              THEN [user |-> AnonymousUser, log |-> log]
              ELSE [user |-> AnonymousUser,
                    log |-> IF ~Has(d, "is_hidden_by_limit") THEN warn(log, "user-id-is-none", [message |-> d]) ELSE log]
    ELSE IF d.user \in DOMAIN UsersById
         THEN [user |-> UsersById[d.user], log |-> log]
         ELSE [user |-> AnonymousUser, log |-> warn(log, "user-id-not-found", [user_id |-> d.user])]

\* message_of without the two assertions
message_of_unasserted(d, blocks, u) ==
    Ok([type |-> from_subtype(d), user |-> u.user, ts |-> IF Has(d, "ts") THEN d.ts ELSE None,
        thread_ts |-> IF Has(d, "thread_ts") THEN d.thread_ts ELSE None,
        text |-> IF Has(d, "text") THEN d.text ELSE None, blocks |-> blocks], u.log)

\* Context.message_from_data after the author u is resolved: ts and text are
\* asserted and the Message is built over the blocks
message_of(d, blocks, u) ==
    IF ~Has(d, "ts") \/ ~Has(d, "text") THEN Raise("AssertionError", u.log)
    ELSE Ok([type |-> from_subtype(d), user |-> u.user, ts |-> d.ts,
             thread_ts |-> IF Has(d, "thread_ts") THEN d.thread_ts ELSE None,
             text |-> d.text, blocks |-> blocks], u.log)

\* Context.message_from_data after the blocks comprehension returned r
message_after_blocks(d, r) == IF ~r.ok THEN r ELSE message_of(d, r.node, resolve_user(d, r.log))

\* raw_blocks of Context.message_from_data: d.get("blocks"), or the one
\* rich-text section blocks_from_text makes of the text
raw_blocks(d) ==
    IF Has(d, "blocks") THEN d.blocks
    ELSE <<[type |-> "rich_text",
            elements |-> <<[type |-> "rich_text_section", elements |-> parse_raw_slack_text_field_to_json(d.text)]>>]>>

\* Context.message_from_data: the blocks are built first, then the author is
\* resolved, then ts and text are asserted. Without blocks and without text,
\* finditer(None) in blocks_from_text is a TypeError
message_from_data(d, log) ==
    IF ~Has(d, "blocks") /\ ~Has(d, "text") THEN Raise("TypeError", log)
    ELSE message_after_blocks(d, blocks_from_data(raw_blocks(d), Ok(<<>>, log)))

\* what a call left in result
Returned(r) == IF r.ok THEN [status |-> "built", node |-> r.node] ELSE [status |-> "raised", exc |-> r.exc]

(***************************************************************************)
(* The blocks payloads of the records: every payload of at most MaxNodes   *)
(* dicts built from the leaves, elements and blocks below.                 *)
(***************************************************************************)
\* the text "ab"
SomeText == <<"a", "b">>

\* section elements: each recognized type with its field and without it, a
\* style with a known and with an unknown key, ids in and out of the
\* registries, an unrecognized type and a dict without type
LeafDicts ==
    { [type |-> "text", text |-> SomeText],
      [type |-> "text"],
      [type |-> "text", text |-> SomeText, style |-> [bold |-> TRUE]],
      [type |-> "text", text |-> SomeText, style |-> [underline |-> TRUE]],
      [type |-> "link", url |-> SomeText],
      [type |-> "link"],
      [type |-> "emoji", name |-> "wave"],
      [type |-> "emoji"],
      [type |-> "channel", channel_id |-> "C1"],
      [type |-> "channel", channel_id |-> "C9"],
      [type |-> "channel"],
      [type |-> "user", user_id |-> "U1"],
      [type |-> "user", user_id |-> "U9"],
      [type |-> "user"],
      [type |-> "broadcast", range |-> "here"],
      [type |-> "broadcast"],
      [type |-> "color", value |-> "#fff"],
      [type |-> "color"],
      [type |-> "bogus"],
      [text |-> SomeText] }

\* the sequences of k elements of S
SeqsOfLen(S, k) == [1..k -> S]

\* the items of a rich_text_list that are k dicts in all
ItemDicts(k) ==
    {[type |-> t, elements |-> es] : t \in {"rich_text_section", "rich_text_bogus"}, es \in SeqsOfLen(LeafDicts, k - 1)}

RECURSIVE ItemForest(_)
\* the sequences of items that are n dicts in all
ItemForest(n) ==
    IF n = 0 THEN {<<>>}
    ELSE UNION {{<<it>> \o rest : it \in ItemDicts(k), rest \in ItemForest(n - k)} : k \in 1..n}

\* the rich-text elements that are k dicts in all
ElementDicts(k) ==
    {[type |-> t, elements |-> es] :
        t \in {"rich_text_section", "rich_text_quote", "rich_text_preformatted", "rich_text_bogus"},
        es \in SeqsOfLen(LeafDicts, k - 1)}
    \cup {[type |-> "rich_text_list", elements |-> items] : items \in ItemForest(k - 1)}

RECURSIVE ElementForest(_)
\* the sequences of rich-text elements that are n dicts in all
ElementForest(n) ==
    IF n = 0 THEN {<<>>}
    ELSE UNION {{<<el>> \o rest : el \in ElementDicts(k), rest \in ElementForest(n - k)} : k \in 1..n}

\* the blocks that are k dicts in all
BlockDicts(k) ==
    {[type |-> "rich_text", elements |-> es] : es \in ElementForest(k - 1)}
    \cup (IF k = 1
          THEN {[type |-> "section"], [type |-> "context"], [type |-> "actions"], [type |-> "bogus"], [block_id |-> "b1"]}
          ELSE {})

RECURSIVE BlockForest(_)
\* the sequences of blocks that are n dicts in all
BlockForest(n) ==
    IF n = 0 THEN {<<>>}
    ELSE UNION {{<<bl>> \o rest : bl \in BlockDicts(k), rest \in BlockForest(n - k)} : k \in 1..n}

\* d.get("blocks") of the records: the payloads of at most max dicts
Payloads(max) == UNION {BlockForest(n) : n \in 0..max}

(***************************************************************************)
(* message_from_data on one record of type "message".                      *)
(***************************************************************************)
InitParse ==
    /\ InitAction
    /\ raw \in {[type |-> "message", user |-> "U1", ts |-> <<"9", ".", "0">>, text |-> SomeText, blocks |-> b] :
                   b \in Payloads(MaxNodes)}
    /\ result = NotRun

\* BaseAction.on_msg: message = self.ctx.message_from_data(msg)
MessageFromData ==
    /\ result = NotRun
    /\ LET r == message_from_data(raw, msgs)
       IN  /\ result' = Returned(r)
           /\ msgs' = r.log
    /\ UNCHANGED <<threads, orphans, cur_file, cur_channel, fed, nfiles, finalized, raw>>

NextParse == MessageFromData

SpecParse == InitParse /\ [][NextParse]_vars

(***************************************************************************)
(* message_from_data on the records of an export: with and without author, *)
(* subtype, bot fields, limit flag, ts, text and blocks.                   *)
(***************************************************************************)
\* the dicts that hold key with one of values, and the dict without key
Optional(key, values) == {<<>>} \cup {key :> v : v \in values}

\* the text "<@U1> <#C9>"
MentionText == <<"<", "@", "U", "1", ">", " ", "<", "#", "C", "9", ">">>

\* the blocks payloads of the records: none, one that builds, one with an
\* unrecognized block, one with a mention of an unregistered user and one
\* whose link has no url
RecordBlocks ==
    { <<>>,
      <<[type |-> "rich_text", elements |-> <<[type |-> "rich_text_section", elements |-> <<[type |-> "text", text |-> SomeText]>>]>>]>>,
      <<[type |-> "bogus"]>>,
      <<[type |-> "rich_text", elements |-> <<[type |-> "rich_text_section", elements |-> <<[type |-> "user", user_id |-> "U9"]>>]>>]>>,
      <<[type |-> "rich_text", elements |-> <<[type |-> "rich_text_section", elements |-> <<[type |-> "link"]>>]>>]>> }

\* the records of type "message"
Records ==
    {[type |-> "message"] @@ u @@ st @@ b @@ n @@ h @@ ts @@ tx @@ bl :
        u \in Optional("user", {"U1", "U9", "USLACKBOT"}),
        st \in Optional("subtype", {"bot_message", "file_comment", "channel_join", "huddle_thread"}),
        b \in Optional("bot_id", {"B1"}),
        n \in Optional("username", {"robot"}),
        h \in Optional("is_hidden_by_limit", {TRUE, FALSE}),
        ts \in Optional("ts", {<<"9", ".", "0">>}),
        tx \in Optional("text", {<<>>, SomeText, MentionText}),
        bl \in Optional("blocks", RecordBlocks)}

InitMessage ==
    /\ InitAction
    /\ raw \in Records
    /\ result = NotRun

NextMessage == MessageFromData

SpecMessage == InitMessage /\ [][NextMessage]_vars

(***************************************************************************)
(* RichTextSectionElement.from_data on one user or channel mention.        *)
(***************************************************************************)
\* the style dicts of a leaf: none, empty, the five known keys and two keys
\* Style.__init__ does not take
LeafStyles ==
    Optional("style", {<<>>, [bold |-> TRUE], [bold |-> FALSE], [italic |-> TRUE], [code |-> TRUE],
                       [strike |-> TRUE], [unlink |-> TRUE], [bold |-> TRUE, italic |-> TRUE],
                       [underline |-> TRUE], [bold |-> TRUE, highlight |-> TRUE]})

\* the mentions of users and channels in and out of the registries
MentionLeaves ==
    {[type |-> "user", user_id |-> id] @@ st : id \in {"U1", "U2", "USLACKBOT", "U8", "U9", "C1"}, st \in LeafStyles}
    \cup {[type |-> "channel", channel_id |-> id] @@ st : id \in {"C1", "C2", "C8", "C9", "U1"}, st \in LeafStyles}

InitMention ==
    /\ InitAction
    /\ raw \in MentionLeaves
    /\ result = NotRun

\* RichTextSectionElement.from_data for a dict of type "user" or "channel"
MentionFromData ==
    /\ result = NotRun
    /\ result' = Returned(RichTextSectionElement_from_data(raw, msgs))
    /\ msgs' = RichTextSectionElement_from_data(raw, msgs).log
    /\ UNCHANGED <<threads, orphans, cur_file, cur_channel, fed, nfiles, finalized, raw>>

NextMention == MentionFromData

SpecMention == InitMention /\ [][NextMention]_vars

(***************************************************************************)
(* parse_channels on one channels array. by_name and by_id are functions   *)
(* from the keys of the dict to its values.                                *)
(***************************************************************************)
\* info.get("previous_names", [])
get_previous_names(info) == IF Has(info, "previous_names") THEN info.previous_names ELSE <<>>

RECURSIVE add_old_names(_, _, _)
\* for name in prev_names: if name not in by_name: by_name[name] = g.to_old_name()
add_old_names(by_name, g, prev_names) ==
    IF prev_names = <<>> THEN by_name
    ELSE add_old_names(IF Head(prev_names) \in DOMAIN by_name
                       THEN by_name
                       ELSE (Head(prev_names) :> Channel(g.id, g.name, TRUE)) @@ by_name,
                       g, Tail(prev_names))

\* the body of the loop of parse_channels with the current name given way
\* to an entry that is already there
add_channel_keep_first(chs, info) ==
    [by_name |-> add_old_names(IF info.name \in DOMAIN chs.by_name
                               THEN chs.by_name
                               ELSE (info.name :> Channel(info.id, info.name, FALSE)) @@ chs.by_name,
                               Channel(info.id, info.name, FALSE), get_previous_names(info)),
     by_id |-> (info.id :> Channel(info.id, info.name, FALSE)) @@ chs.by_id]

\* the body of the loop of parse_channels: by_name[name] = g, by_id[id_] = g,
\* then the previous names
add_channel(chs, info) ==
    [by_name |-> add_old_names((info.name :> Channel(info.id, info.name, FALSE)) @@ chs.by_name,
                               Channel(info.id, info.name, FALSE), get_previous_names(info)),
     by_id |-> (info.id :> Channel(info.id, info.name, FALSE)) @@ chs.by_id]

RECURSIVE add_channels(_, _)
\* for info in items
add_channels(chs, items) ==
    IF items = <<>> THEN chs ELSE add_channels(add_channel(chs, Head(items)), Tail(items))

\* parse_channels for the array items of the file
parse_channels(items) == add_channels([by_name |-> <<>>, by_id |-> <<>>], items)

\* Channels.from_name on the registry chs
Channels_from_name(chs, name) == IF name \in DOMAIN chs.by_name THEN chs.by_name[name] ELSE NoChannel

\* the channel names of the arrays
ChannelNames == {"a", "b", "c"}

\* the entries of a channels array: without previous_names and with none,
\* one or two of them
ChannelInfos ==
    {[id |-> id, name |-> name] @@ pn :
        id \in {"C1", "C2"}, name \in ChannelNames,
        pn \in Optional("previous_names",
                        {<<>>} \cup {<<n>> : n \in ChannelNames}
                               \cup {<<n, m>> : n \in ChannelNames, m \in ChannelNames})}

\* the channels arrays of at most max entries
ChannelArrays(max) == UNION {SeqsOfLen(ChannelInfos, k) : k \in 0..max}

InitChannels ==
    /\ InitAction
    /\ raw \in ChannelArrays(MaxChannels)
    /\ result = NotRun

\* Context.from_base_path: channels = parse_channels(...)
ParseChannels ==
    /\ result = NotRun
    /\ result' = [status |-> "built", node |-> parse_channels(raw)]
    /\ UNCHANGED <<threads, orphans, msgs, cur_file, cur_channel, fed, nfiles, finalized, raw>>

NextChannels == ParseChannels

SpecChannels == InitChannels /\ [][NextChannels]_vars

(***************************************************************************)
(* RichTextSectionElementText.from_data on one text leaf.                  *)
(***************************************************************************)
\* the texts of at most max characters
Texts(max) == UNION {SeqsOfLen(TextChars, k) : k \in 0..max}

InitEmoji ==
    /\ InitAction
    /\ raw \in {[type |-> "text", text |-> t] : t \in Texts(MaxTextLen)}
    /\ result = NotRun

\* RichTextSectionElement.from_data for a dict of type "text"
TextFromData ==
    /\ result = NotRun
    /\ LET r == RichTextSectionElement_from_data(raw, msgs)
       IN  /\ result' = Returned(r)
           /\ msgs' = r.log
    /\ UNCHANGED <<threads, orphans, cur_file, cur_channel, fed, nfiles, finalized, raw>>

NextEmoji == TextFromData

SpecEmoji == InitEmoji /\ [][NextEmoji]_vars

(***************************************************************************)
(* parse_raw_slack_text_field_to_json on one raw text.                     *)
(***************************************************************************)
\* brackets, the bar, the three sigils, a letter and a line break
RawChars == {"<", ">", "|", "@", "#", "!", "a", "\n"}

\* the raw texts of at most max characters
RawTexts(max) == UNION {SeqsOfLen(RawChars, k) : k \in 0..max}

InitLegacy ==
    /\ InitAction
    /\ raw \in RawTexts(MaxRawLen)
    /\ result = NotRun

\* blocks_from_text(text)
BlocksFromText ==
    /\ result = NotRun
    /\ result' = [status |-> "built", node |-> parse_raw_slack_text_field_to_json(raw)]
    /\ UNCHANGED <<threads, orphans, msgs, cur_file, cur_channel, fed, nfiles, finalized, raw>>

NextLegacy == BlocksFromText

SpecLegacy == InitLegacy /\ [][NextLegacy]_vars

(***************************************************************************)
(* mdom: the document nodes and their renderings.  A str is a sequence of  *)
(* pieces: single characters, and an id, a name or a type kept whole.  An  *)
(* ElementTree element is a record of its tag, attrib, text and children.  *)
(***************************************************************************)
\* the children of one mdom node
MaxChilds == 3

\* ET.Element(tag, attrib), with its text and its children
Element(tag, attrib, text, childs) == [tag |-> tag, attrib |-> attrib, text |-> text, childs |-> childs]

RECURSIVE str_split(_, _)
\* s.split(sep), sep one character
str_split(s, sep) ==
    IF \A i \in 1..Len(s) : s[i] # sep THEN <<s>>
    ELSE LET i == CHOOSE k \in 1..Len(s) : s[k] = sep /\ \A l \in 1..(k - 1) : s[l] # sep
         IN  <<SubSeq(s, 1, i - 1)>> \o str_split(SubSeq(s, i + 1, Len(s)), sep)

\* s.replace(old, new), old and new one character each
str_replace(s, old, new) == [i \in 1..Len(s) |-> IF s[i] = old THEN new ELSE s[i]]

RECURSIVE str_join(_, _)
\* sep.join(parts)
str_join(sep, parts) ==
    IF parts = <<>> THEN <<>>
    ELSE IF Len(parts) = 1 THEN parts[1]
         ELSE parts[1] \o sep \o str_join(sep, Tail(parts))

RECURSIVE line_nodes(_, _)
\* the loop of node over the lines of a str: a span for each line, a br
\* before every line but the first; i is the number of lines done
line_nodes(lines, i) ==
    IF i = Len(lines) THEN <<>>
    ELSE (IF i > 0 THEN <<Element("br", <<>>, None, <<>>)>> ELSE <<>>)
         \o <<Element("span", <<>>, lines[i + 1], <<>>)>>
         \o line_nodes(lines, i + 1)

\* node(tag, childs, attrib) for childs a str
node_str(tag, childs, attrib) ==
    IF Len(str_split(childs, "\n")) > 1
    THEN Element(tag, attrib, None, line_nodes(str_split(childs, "\n"), 0))
    ELSE Element(tag, attrib, childs, <<>>)

\* node(tag, childs, attrib) for childs a list of elements
node_list(tag, childs, attrib) == Element(tag, attrib, None, childs)

\* node(tag, childs, attrib) for childs one element
node_one(tag, child, attrib) == Element(tag, attrib, None, <<child>>)

\* the constructors of the nodes
Ref(type_, target, text) == [cls |-> "Ref", type |-> type_, target |-> target, text |-> text]

Span(type_, text) == [cls |-> "Span", type |-> type_, text |-> text]

Section(type_, childs) == [cls |-> "Section", type |-> type_, childs |-> childs]

Block(type_, childs) == [cls |-> "Block", type |-> type_, childs |-> childs]

Paragraph(type_, childs) == [cls |-> "Paragraph", type |-> type_, childs |-> childs]

Preformatted(childs) == [cls |-> "Preformatted", type |-> "preformatted", childs |-> childs]

Quote(childs) == [cls |-> "Quote", type |-> "quote", childs |-> childs]

Group(type_, childs) == [cls |-> "Group", type |-> type_, childs |-> childs]

List(childs) == [cls |-> "List", childs |-> childs]

OrderedList(childs) == [cls |-> "OrderedList", childs |-> childs]

\* the classes of the nodes that hold children
ContainerClasses == {"Section", "Block", "Paragraph", "Preformatted", "Quote", "Group", "List", "OrderedList"}

\* node("span", " ")
space_span == Element("span", <<>>, <<" ">>, <<>>)

\* childs.insert(i, x)
list_insert(childs, i, x) == SubSeq(childs, 1, i) \o <<x>> \o SubSeq(childs, i + 1, Len(childs))

RECURSIVE interleave(_, _, _)
\* Group.to_html: for i in range(1, len(childs), 2): childs.insert(i, ...),
\* the range being computed once, over the n rendered children
interleave(childs, i, n) ==
    IF i >= n THEN childs
    ELSE interleave(list_insert(childs, i, space_span), i + 2, n)

\* Ref.to_html
Ref_to_html(n) ==
    IF n.type = "link" THEN node_str("a", n.text, [href |-> n.target])
    ELSE node_str("a", n.text, [class |-> n.type, href |-> <<"#", n.type, "?key=">> \o n.target])

\* Span.to_html
Span_to_html(n) ==
    IF n.type = "isodate"
    THEN node_str("time", str_split(str_replace(n.text, "T", " "), ".")[1], [datetime |-> n.text])
    ELSE node_str("span", n.text, IF n.type # "" THEN [class |-> n.type] ELSE <<>>)

\* Section.to_html over the rendered children
Section_to_html(n, childs) == node_list("section", childs, [class |-> n.type])

\* Block.to_html over the rendered children
Block_to_html(n, childs) == node_list("div", childs, [class |-> n.type])

\* Paragraph.to_html over the rendered children
Paragraph_to_html(n, childs) == node_list("p", childs, [class |-> n.type])

\* Preformatted.to_html over the rendered children
Preformatted_to_html(n, childs) == node_list("pre", childs, <<>>)

\* Quote.to_html with the tag of a Block
Quote_to_html_div(n, childs) == node_list("div", childs, <<>>)

\* Quote.to_html over the rendered children
Quote_to_html(n, childs) == node_list("blockquote", childs, <<>>)

\* Group.to_html over the rendered children
Group_to_html(n, childs) == node_list("div", interleave(childs, 1, Len(childs)), [class |-> n.type])

\* [node("li", child.to_html()) for child in self.childs]
list_items(childs) == [i \in 1..Len(childs) |-> node_one("li", childs[i], <<>>)]

\* List.to_html over the rendered children
List_to_html(n, childs) == node_list("ul", list_items(childs), <<>>)

\* OrderedList.to_html over the rendered children
OrderedList_to_html(n, childs) == node_list("ol", list_items(childs), <<>>)

\* the to_html of the class of n, childs being the rendered children
container_to_html(n, childs) ==
    CASE n.cls = "Section" -> Section_to_html(n, childs)
      [] n.cls = "Block" -> Block_to_html(n, childs)
      [] n.cls = "Paragraph" -> Paragraph_to_html(n, childs)
      [] n.cls = "Preformatted" -> Preformatted_to_html(n, childs)
      [] n.cls = "Quote" -> Quote_to_html(n, childs)
      [] n.cls = "Group" -> Group_to_html(n, childs)
      [] n.cls = "List" -> List_to_html(n, childs)
      [] n.cls = "OrderedList" -> OrderedList_to_html(n, childs)

RECURSIVE to_html(_)
\* Node.to_html, by the class of the node
to_html(n) ==
    IF n.cls = "Ref" THEN Ref_to_html(n)
    ELSE IF n.cls = "Span" THEN Span_to_html(n)
    ELSE container_to_html(n, [i \in 1..Len(n.childs) |-> to_html(n.childs[i])])

\* Ref.to_text
Ref_to_text(n) ==
    IF n.type = "user" \/ n.type = "bot" THEN <<"@">> \o n.text
    ELSE IF n.type = "nouser" THEN <<"@", "?">>
    ELSE IF n.type = "channel" THEN <<"#">> \o n.text
    ELSE <<"[">> \o n.text \o <<"]", "(">> \o n.target \o <<")">>

\* Span.to_text
Span_to_text(n) ==
    IF n.type = "isodate" THEN str_split(str_replace(n.text, "T", " "), ".")[1]
    ELSE n.text

\* the separator of the to_text of a class of nodes that hold children
joiner(cls) ==
    CASE cls \in {"Section", "Block", "Paragraph"} -> <<"\n", "\n">>
      [] cls \in {"Preformatted", "Quote"} -> <<"\n">>
      [] cls = "Group" -> <<" ">>
      [] cls = "List" -> <<"\n", "*", " ">>
      [] cls = "OrderedList" -> <<"\n", "-", " ">>

RECURSIVE to_text(_)
\* Node.to_text, by the class of the node
to_text(n) ==
    IF n.cls = "Ref" THEN Ref_to_text(n)
    ELSE IF n.cls = "Span" THEN Span_to_text(n)
    ELSE str_join(joiner(n.cls), [i \in 1..Len(n.childs) |-> to_text(n.childs[i])])

(***************************************************************************)
(* The renderings of a node: to_html and to_text on nodes of every class   *)
(* with up to MaxChilds children, leaves or nodes that hold leaves.        *)
(***************************************************************************)
\* the leaves: a text span, a span without type whose text has two lines,
\* and a link
LeafNodes ==
    { Span("text", <<"a">>), Span("", <<"b", "\n", "c">>), Ref("link", <<"u">>, <<"d">>) }

\* the children of the outer node: the leaves, a paragraph and a list
ChildNodes ==
    LeafNodes \cup { Paragraph("Section", <<Span("text", <<"a">>)>>),
                     List(<<Span("text", <<"a">>), Span("text", <<"e">>)>>) }

\* a node of class cls over childs
Container(cls, childs) ==
    CASE cls = "Section" -> Section("thread", childs)
      [] cls = "Block" -> Block("message", childs)
      [] cls = "Paragraph" -> Paragraph("Section", childs)
      [] cls = "Preformatted" -> Preformatted(childs)
      [] cls = "Quote" -> Quote(childs)
      [] cls = "Group" -> Group("msg-head", childs)
      [] cls = "List" -> List(childs)
      [] cls = "OrderedList" -> OrderedList(childs)

\* the nodes rendered: the leaves, and every class over up to max children
RenderNodes(max) ==
    LeafNodes \cup {Container(cls, childs) : cls \in ContainerClasses,
                                             childs \in UNION {[1..k -> ChildNodes] : k \in 0..max}}

InitRender ==
    /\ InitAction
    /\ raw \in RenderNodes(MaxChilds)
    /\ result = NotRun

\* Node.to_html
ToHtml ==
    /\ result = NotRun
    /\ result' = [status |-> "html", node |-> to_html(raw)]
    /\ UNCHANGED <<threads, orphans, msgs, cur_file, cur_channel, fed, nfiles, finalized, raw>>

\* Node.to_text
ToText ==
    /\ result = NotRun
    /\ result' = [status |-> "text", node |-> to_text(raw)]
    /\ UNCHANGED <<threads, orphans, msgs, cur_file, cur_channel, fed, nfiles, finalized, raw>>

NextRender == ToHtml \/ ToText

SpecRender == InitRender /\ [][NextRender]_vars

(***************************************************************************)
(* ThreadsToTextAction: the walk of one file of records, the threads       *)
(* sorted after the last record, and each thread printed as text.          *)
(***************************************************************************)
\* the records of the stream
MaxStream == 3

\* Timestamps of the stream: "10.0" and "10.5"
StreamTs == { <<"1", "0", ".", "0">>, <<"1", "0", ".", "5">> }

\* f"{n:06d}" for the digits of a fraction of a second
pad_micro(frac) == frac \o [i \in 1..(6 - Len(frac)) |-> "0"]

\* datetime.fromtimestamp(float(ts)).isoformat() in a process whose local
\* time is UTC, for a ts below one minute: the second on two digits, and
\* the microseconds if they are not zero
isoformat(ts) ==
    LET parts == str_split(ts, ".")
        sec == IF Len(parts[1]) = 1 THEN <<"0">> \o parts[1] ELSE parts[1]
        frac == IF Len(parts) > 1 THEN parts[2] ELSE <<>>
    IN  <<"1", "9", "7", "0", "-", "0", "1", "-", "0", "1", "T", "0", "0", ":", "0", "0", ":">> \o sec
        \o (IF \A i \in 1..Len(frac) : frac[i] = "0" THEN <<>> ELSE <<".">> \o pad_micro(frac))

\* self.id or "", self.name or ""
or_empty(id_) == IF id_ = NoneId THEN <<>> ELSE <<id_>>

\* User.to_mdom, Bot.to_mdom and AnonymousUser.to_mdom
User_to_mdom(u) ==
    CASE u.cls = "User" -> Ref("user", or_empty(u.id), or_empty(u.name))
      [] u.cls = "Bot" -> Ref("bot", or_empty(u.id), or_empty(u.name))
      [] u.cls = "AnonymousUser" -> Ref("nouser", <<>>, <<>>)

\* RichTextSectionElementText.to_mdom
Text_to_mdom(e) == Span("text", e.text)

\* RichTextSection.to_mdom, for a section of text leaves
RichTextSection_to_mdom(s) == Paragraph("Section", [i \in 1..Len(s.elements) |-> Text_to_mdom(s.elements[i])])

\* BlockRichText.to_mdom, for a block of sections
BlockRichText_to_mdom(b) == Block("rich_text", [i \in 1..Len(b.elements) |-> RichTextSection_to_mdom(b.elements[i])])

\* Message.to_mdom, for a message of rich-text blocks
Message_to_mdom(m) ==
    Block("message", <<Group("msg-head", <<Span("isodate", isoformat(m.ts)), User_to_mdom(m.user)>>)>>
                     \o [i \in 1..Len(m.blocks) |-> BlockRichText_to_mdom(m.blocks[i])])

\* Thread.to_mdom with the replies last to first
Thread_to_mdom_reversed(th) ==
    Section("thread", <<Message_to_mdom(th.message),
                        Block("replies", [i \in 1..Len(th.replies) |-> Message_to_mdom(th.replies[Len(th.replies) + 1 - i])])>>)

\* Thread.to_mdom
Thread_to_mdom(th) ==
    Section("thread", <<Message_to_mdom(th.message),
                        Block("replies", [i \in 1..Len(th.replies) |-> Message_to_mdom(th.replies[i])])>>)

\* the characters str.strip() removes
IsWhitespace(c) == c \in {" ", "\n"}

RECURSIVE str_lstrip(_)
str_lstrip(s) == IF s # <<>> /\ IsWhitespace(Head(s)) THEN str_lstrip(Tail(s)) ELSE s

RECURSIVE str_rstrip(_)
str_rstrip(s) == IF s # <<>> /\ IsWhitespace(s[Len(s)]) THEN str_rstrip(SubSeq(s, 1, Len(s) - 1)) ELSE s

\* s.strip()
str_strip(s) == str_rstrip(str_lstrip(s))

\* ThreadsToTextAction.handle_thread: the text printed for a thread
handle_thread(th) == str_strip(to_text(Thread_to_mdom(th)))

\* SortedThreadsAction.handle_threads: the texts printed, in order
handle_threads(ths) == [i \in 1..Len(ths) |-> handle_thread(ths[i])]

\* the text "a"
ShortText == <<"a">>

\* the records of type "message" of the stream: a registered author, ts,
\* thread_ts or none, a text and no blocks
StreamRecords ==
    {[type |-> "message", user |-> "U1", ts |-> ts, text |-> tx] @@ tts :
        ts \in StreamTs, tts \in Optional("thread_ts", StreamTs), tx \in {ShortText, SomeText}}

\* the streams of at most max records
Streams(max) == UNION {[1..k -> StreamRecords] : k \in 0..max}

InitThreads ==
    /\ InitAction
    /\ raw \in Streams(MaxStream)
    /\ result = NotRun

\* BaseAction.before_file, for the one file of the archive
ThreadsBeforeFile ==
    /\ finalized = 0
    /\ cur_file = NoFile
    /\ nfiles = 0
    /\ cur_file' = "general"
    /\ cur_channel' = from_name("general")
    /\ nfiles' = 1
    /\ UNCHANGED <<threads, orphans, msgs, fed, finalized, raw, result>>

\* BaseAction.on_msg for the next record of the file: message_from_data,
\* then RethreadAction.on_message
ThreadsOnMsg ==
    /\ cur_file # NoFile
    /\ Len(fed) < Len(raw)
    /\ LET r == message_from_data(raw[Len(fed) + 1], msgs)
           st == on_message([threads |-> threads, orphans |-> orphans, msgs |-> r.log], r.node, cur_channel)
       IN  /\ threads' = st.threads
           /\ orphans' = st.orphans
           /\ msgs' = st.msgs
           /\ fed' = Append(fed, r.node)
    /\ UNCHANGED <<cur_file, cur_channel, nfiles, finalized, raw, result>>

\* BaseAction.after_file, once every record of the file is read
ThreadsAfterFile ==
    /\ cur_file # NoFile
    /\ Len(fed) = Len(raw)
    /\ cur_file' = NoFile
    /\ cur_channel' = UnknownChannel
    /\ UNCHANGED <<threads, orphans, msgs, fed, nfiles, finalized, raw, result>>

\* SortedThreadsAction.after_all: RethreadAction.after_all, then the sorted
\* threads are handled
ThreadsAfterAll ==
    /\ cur_file = NoFile
    /\ nfiles = 1
    /\ finalized = 0
    /\ LET st == process_orphans(State)
       IN  /\ threads' = st.threads
           /\ orphans' = st.orphans
           /\ msgs' = st.msgs
           /\ result' = [status |-> "printed", node |-> handle_threads(get_sorted_messages_by_ts(st.threads))]
    /\ finalized' = finalized + 1
    /\ UNCHANGED <<cur_file, cur_channel, fed, nfiles, raw>>

NextThreads == ThreadsBeforeFile \/ ThreadsOnMsg \/ ThreadsAfterFile \/ ThreadsAfterAll

SpecThreads == InitThreads /\ [][NextThreads]_vars

(***************************************************************************)
(* BaseAction.on_msg on the records of a file: messages, records of other  *)
(* types, records without type and canvas markers.                         *)
(***************************************************************************)
\* the records of the file
MaxRecords == 2

\* the mimetype of a canvas document
CanvasMime == "application/vnd.slack-docs"

\* on_unknown that warns about the canvas markers too
on_unknown_always_warn(log, m) == warn(log, "unknown-message-type", [message |-> m])

\* BaseAction.on_unknown
on_unknown(log, m) ==
    IF get_id(m, "mimetype") # CanvasMime THEN warn(log, "unknown-message-type", [message |-> m]) ELSE log

\* on_msg after message_from_data returned r: the Message goes to
\* on_message, an exception leaves on_msg
forward(st, r, channel) ==
    IF r.ok
    THEN [ok |-> TRUE, forwarded |-> <<r.node>>,
          st |-> on_message([threads |-> st.threads, orphans |-> st.orphans, msgs |-> r.log], r.node, channel)]
    ELSE [ok |-> FALSE, forwarded |-> <<>>,
          st |-> [threads |-> st.threads, orphans |-> st.orphans, msgs |-> r.log]]

\* BaseAction.on_msg of a RethreadAction in state st, with self.cur_channel =
\* channel: the state after, the Message forwarded if any, and whether the
\* call returned
on_msg(st, msg, channel) ==
    IF get_id(msg, "type") = "message"
    THEN forward(st, message_from_data(msg, st.msgs), channel)
    ELSE [ok |-> TRUE, forwarded |-> <<>>, st |-> [st EXCEPT !.msgs = on_unknown(@, msg)]]

\* the records: a root, a reply to it, a message without ts, a message
\* that bears the canvas mimetype, and records that are no messages, with
\* and without type, with the canvas mimetype, with another and with none
FileRecords ==
    { [type |-> "message", user |-> "U1", ts |-> <<"1", "0", ".", "0">>, text |-> SomeText],
      [type |-> "message", user |-> "U1", ts |-> <<"1", "0", ".", "5">>, thread_ts |-> <<"1", "0", ".", "0">>, text |-> SomeText],
      [type |-> "message", user |-> "U1", text |-> SomeText],
      [type |-> "message", user |-> "U2", ts |-> <<"1", "0", ".", "0">>, text |-> SomeText, mimetype |-> CanvasMime],
      [type |-> "channel_canvas", mimetype |-> CanvasMime],
      [mimetype |-> CanvasMime],
      [type |-> "file", mimetype |-> "text/plain", ts |-> <<"1", "0", ".", "0">>, text |-> SomeText],
      [type |-> "file"],
      [ts |-> <<"1", "0", ".", "0">>, thread_ts |-> <<"1", "0", ".", "0">>, text |-> SomeText] }

\* the arrays of at most max records
RecordArrays(max) == UNION {[1..k -> FileRecords] : k \in 0..max}

InitOnMsg ==
    /\ InitAction
    /\ raw \in RecordArrays(MaxRecords)
    /\ result = [status |-> "reading", n |-> 0]

\* BaseAction.on_msg for the next record of the array; an exception ends
\* the reading
OnMsg ==
    /\ result.status = "reading"
    /\ result.n < Len(raw)
    /\ LET r == on_msg(State, raw[result.n + 1], cur_channel)
       IN  /\ threads' = r.st.threads
           /\ orphans' = r.st.orphans
           /\ msgs' = r.st.msgs
           /\ fed' = fed \o r.forwarded
           /\ result' = [status |-> IF r.ok THEN "reading" ELSE "raised", n |-> result.n + 1]
    /\ UNCHANGED <<cur_file, cur_channel, nfiles, finalized, raw>>

NextOnMsg == OnMsg

SpecOnMsg == InitOnMsg /\ [][NextOnMsg]_vars

(***************************************************************************)
(* to_html_str: the serialization of the element tree, and the node after  *)
(* the call.                                                               *)
(***************************************************************************)
RECURSIVE str_concat(_)
\* "".join(parts)
str_concat(parts) == IF parts = <<>> THEN <<>> ELSE Head(parts) \o str_concat(Tail(parts))

\* ElementTree._escape_cdata
escape_cdata(text) ==
    str_concat([i \in 1..Len(text) |->
        CASE text[i] = "&" -> <<"&", "a", "m", "p", ";">>
          [] text[i] = "<" -> <<"&", "l", "t", ";">>
          [] text[i] = ">" -> <<"&", "g", "t", ";">>
          [] OTHER -> <<text[i]>>])

\* ElementTree._escape_attrib_html
escape_attrib_html(text) ==
    str_concat([i \in 1..Len(text) |->
        CASE text[i] = "&" -> <<"&", "a", "m", "p", ";">>
          [] text[i] = ">" -> <<"&", "g", "t", ";">>
          [] text[i] = "\"" -> <<"&", "q", "u", "o", "t", ";">>
          [] OTHER -> <<text[i]>>])

\* the keys of the attrib dicts of mdom, in the order the dicts are written
AttribKeys == <<"class", "href", "datetime">>

\* the value of an attribute as a str: a class is a type kept whole
attrib_str(attrib, key) == IF key = "class" THEN <<attrib[key]>> ELSE attrib[key]

\* for k, v in elem.items(): write(' %s="%s"' % (k, _escape_attrib_html(v)))
attribs_to_str(attrib) ==
    str_concat([i \in 1..Len(AttribKeys) |->
        IF AttribKeys[i] \in DOMAIN attrib
        THEN <<" ", AttribKeys[i], "=", "\"">> \o escape_attrib_html(attrib_str(attrib, AttribKeys[i])) \o <<"\"">>
        ELSE <<>>])

\* the elements of ElementTree.HTML_EMPTY that node is called with
HTML_EMPTY == {"br"}

RECURSIVE node_to_str(_)
\* node_to_str: ET.tostring(n, encoding="utf-8", method="html")
node_to_str(e) ==
    <<"<", e.tag>> \o attribs_to_str(e.attrib) \o <<">">>
    \o (IF e.text = None THEN <<>> ELSE escape_cdata(e.text))
    \o str_concat([i \in 1..Len(e.childs) |-> node_to_str(e.childs[i])])
    \o (IF e.tag \in HTML_EMPTY THEN <<>> ELSE <<"</", e.tag, ">">>)

\* Node.to_html_str
to_html_str(n) == node_to_str(to_html(n))

\* childs after a space span is inserted at every other position of it
interleave_nodes(childs) ==
    [i \in 1..(Len(childs) + Len(childs) \div 2) |->
        IF i % 2 = 0 /\ i <= 2 * (Len(childs) \div 2) THEN Span("", <<" ">>)
        ELSE IF i <= 2 * (Len(childs) \div 2) THEN childs[(i + 1) \div 2] ELSE childs[i - Len(childs) \div 2]]

\* the node after a to_html that inserts the spaces of a Group into
\* self.childs
after_to_html_in_place(n) ==
    IF n.cls = "Group" THEN [n EXCEPT !.childs = interleave_nodes(n.childs)] ELSE n

\* the node after to_html: no to_html assigns to a field of self, and the
\* list Group.to_html inserts into is the one its comprehension built
after_to_html(n) == n

\* the nodes serialized: those of RenderNodes, a span whose text is escaped,
\* an isodate and a reference to a user
StrNodes(max) ==
    RenderNodes(max) \cup { Span("text", <<"<", "&", "\"", ">">>),
                            Span("isodate", isoformat(<<"1", "0", ".", "5">>)),
                            Ref("user", <<"U", "&", "\"">>, <<"a", "<">>) }

InitStr ==
    /\ InitAction
    /\ raw \in StrNodes(MaxChilds)
    /\ result = [status |-> "node", node |-> raw, outs |-> <<>>]

\* Node.to_html_str, called on the same node once more
ToHtmlStr ==
    /\ Len(result.outs) < 2
    /\ result' = [status |-> "node", node |-> after_to_html(result.node),
                  outs |-> Append(result.outs, to_html_str(result.node))]
    /\ UNCHANGED <<threads, orphans, msgs, cur_file, cur_channel, fed, nfiles, finalized, raw>>

NextStr == ToHtmlStr

SpecStr == InitStr /\ [][NextStr]_vars

(***************************************************************************)
(* walk_archive with a RethreadAction over an archive: the files of        *)
(* ArchiveFiles, each an array of records; the calls made on the action    *)
(* are kept in result.calls.                                               *)
(***************************************************************************)
\* the records of one file
MaxFileRecords == 2

\* the records of the files: a root and a reply to it
WalkRecords ==
    { [type |-> "message", user |-> "U1", ts |-> <<"1", "0", ".", "0">>, text |-> SomeText],
      [type |-> "message", user |-> "U1", ts |-> <<"1", "0", ".", "5">>, thread_ts |-> <<"1", "0", ".", "0">>, text |-> SomeText] }

\* the archives: for each file of ArchiveFiles, an array of at most max records
Archives(max) == [1..Len(ArchiveFiles) -> UNION {[1..k -> WalkRecords] : k \in 0..max}]

\* walk_archive that leaves a file after its first record
next_call_one_record(archive, w) ==
    IF ~w.started THEN "before_all"
    ELSE IF w.in_file
         THEN IF w.n < Len(archive[w.file]) /\ w.n < 1 THEN "on_msg" ELSE "after_file"
         ELSE IF w.file < Len(archive) THEN "before_file"
              ELSE IF ~w.finalized THEN "after_all" ELSE "return"

\* the call walk_archive makes next on the action, at position w of the walk:
\* whether before_all was called, the number of the files begun, whether
\* the last of them is still open, the number of its records handed to
\* on_msg, and whether after_all was called
next_call(archive, w) ==
    IF ~w.started THEN "before_all"
    ELSE IF w.in_file
         THEN IF w.n < Len(archive[w.file]) THEN "on_msg" ELSE "after_file"
         ELSE IF w.file < Len(archive) THEN "before_file"
              ELSE IF ~w.finalized THEN "after_all" ELSE "return"

\* the position of the walk in the state
Walk == [started |-> result.status # "new", file |-> nfiles, in_file |-> cur_file # NoFile,
         n |-> result.n, finalized |-> finalized > 0]

InitWalk ==
    /\ InitAction
    /\ raw \in Archives(MaxFileRecords)
    /\ result = [status |-> "new", n |-> 0, calls |-> <<>>]

\* action.before_all(base_path, ctx)
WalkBeforeAll ==
    /\ result.status = "new"
    /\ next_call(raw, Walk) = "before_all"
    /\ result' = [status |-> "walking", n |-> 0, calls |-> Append(result.calls, [call |-> "before_all"])]
    /\ UNCHANGED <<threads, orphans, msgs, cur_file, cur_channel, fed, nfiles, finalized, raw>>

\* action.before_file(file_path), for the next file of the sorted list
WalkBeforeFile ==
    /\ result.status = "walking"
    /\ next_call(raw, Walk) = "before_file"
    /\ cur_file' = ArchiveFiles[nfiles + 1]
    /\ cur_channel' = from_name(ArchiveFiles[nfiles + 1])
    /\ nfiles' = nfiles + 1
    /\ result' = [status |-> "walking", n |-> 0,
                  calls |-> Append(result.calls, [call |-> "before_file", file |-> ArchiveFiles[nfiles + 1]])]
    /\ UNCHANGED <<threads, orphans, msgs, fed, finalized, raw>>

\* action.on_msg(msg), for the next record of the open file; an exception
\* ends the walk
WalkOnMsg ==
    /\ result.status = "walking"
    /\ next_call(raw, Walk) = "on_msg"
    /\ LET r == on_msg(State, raw[nfiles][result.n + 1], cur_channel)
       IN  /\ threads' = r.st.threads
           /\ orphans' = r.st.orphans
           /\ msgs' = r.st.msgs
           /\ fed' = fed \o r.forwarded
           /\ result' = [status |-> IF r.ok THEN "walking" ELSE "raised", n |-> result.n + 1,
                         calls |-> Append(result.calls, [call |-> "on_msg", file |-> cur_file,
                                                         record |-> result.n + 1, channel |-> cur_channel])]
    /\ UNCHANGED <<cur_file, cur_channel, nfiles, finalized, raw>>

\* action.after_file()
WalkAfterFile ==
    /\ result.status = "walking"
    /\ next_call(raw, Walk) = "after_file"
    /\ cur_file' = NoFile
    /\ cur_channel' = UnknownChannel
    /\ result' = [result EXCEPT !.calls = Append(@, [call |-> "after_file"])]
    /\ UNCHANGED <<threads, orphans, msgs, fed, nfiles, finalized, raw>>

\* action.after_all(): RethreadAction.after_all, then walk_archive returns
WalkAfterAll ==
    /\ result.status = "walking"
    /\ next_call(raw, Walk) = "after_all"
    /\ LET st == process_orphans(State)
       IN  /\ threads' = st.threads
           /\ orphans' = st.orphans
           /\ msgs' = st.msgs
    /\ finalized' = finalized + 1
    /\ result' = [result EXCEPT !.status = "returned", !.calls = Append(@, [call |-> "after_all"])]
    /\ UNCHANGED <<cur_file, cur_channel, fed, nfiles, raw>>

NextWalk == WalkBeforeAll \/ WalkBeforeFile \/ WalkOnMsg \/ WalkAfterFile \/ WalkAfterAll

SpecWalk == InitWalk /\ [][NextWalk]_vars

(***************************************************************************)
(* A RethreadAction fed a stream of messages, then process_orphans, which  *)
(* a caller may run once more.                                             *)
(***************************************************************************)
\* the messages of the stream
MaxFed == 3

InitStream ==
    /\ InitAction
    /\ raw = NoData
    /\ result = NotRun

\* RethreadAction.on_message with one more Message
StreamOnMessage ==
    /\ finalized = 0
    /\ Len(fed) < MaxFed
    /\ \E ts \in TsSet, thread_ts \in TsSet \cup {None} :
          LET msg == Message(Len(fed) + 1, "U1", ts, thread_ts)
              st == on_message(State, msg, cur_channel)
          IN  /\ threads' = st.threads
              /\ orphans' = st.orphans
              /\ msgs' = st.msgs
              /\ fed' = Append(fed, msg)
    /\ UNCHANGED <<cur_file, cur_channel, nfiles, finalized, raw, result>>

\* RethreadAction.after_all: process_orphans, a first and a second time
StreamAfterAll ==
    /\ finalized < 2
    /\ LET st == process_orphans(State)
       IN  /\ threads' = st.threads
           /\ orphans' = st.orphans
           /\ msgs' = st.msgs
    /\ finalized' = finalized + 1
    /\ UNCHANGED <<cur_file, cur_channel, fed, nfiles, raw, result>>

NextStream == StreamOnMessage \/ StreamAfterAll

SpecStream == InitStream /\ [][NextStream]_vars

(***************************************************************************)
(* Message.get_links on the message message_from_data built.               *)
(***************************************************************************)
\* for sub_element in element.elements: if isinstance(sub_element, cls):
\* fn(sub_element)
matching_leaves(elements, cls) == SelectSeq(elements, LAMBDA e : e.cls = cls)

RECURSIVE walk_blocks_for_leaf_instance(_, _, _)
RECURSIVE walk_elements(_, _, _)
\* the loop of walk_blocks_for_leaf_instance over the elements of a
\* BlockRichText; acc holds the leaves fn was called with so far. A
\* RichTextList goes to the recursive call; a RichTextUnknown has no
\* attribute elements
walk_elements(elements, cls, acc) ==
    IF elements = <<>> \/ ~acc.ok THEN acc
    ELSE IF Head(elements).cls = "RichTextList"
         THEN walk_elements(Tail(elements), cls, walk_blocks_for_leaf_instance(Head(elements).elements, cls, acc))
         ELSE IF ~Has(Head(elements), "elements") THEN Raise("AttributeError", acc.log)
              ELSE walk_elements(Tail(elements), cls,
                                 Ok(acc.node \o matching_leaves(Head(elements).elements, cls), acc.log))

\* walk_blocks_for_leaf_instance(blocks, cls, fn): only a BlockRichText is
\* entered
walk_blocks_for_leaf_instance(blocks, cls, acc) ==
    IF blocks = <<>> \/ ~acc.ok THEN acc
    ELSE IF Head(blocks).cls = "BlockRichText"
         THEN walk_blocks_for_leaf_instance(Tail(blocks), cls, walk_elements(Head(blocks).elements, cls, acc))
         ELSE walk_blocks_for_leaf_instance(Tail(blocks), cls, acc)

\* Message.get_links
get_links(m) == walk_blocks_for_leaf_instance(m.blocks, "RichTextSectionElementLink", Ok(<<>>, <<>>))

\* Message.get_links on the message that was built
GetLinks ==
    /\ result.status = "built"
    /\ result' = [status |-> IF get_links(result.node).ok THEN "links" ELSE "links-raised",
                  node |-> result.node,
                  links |-> IF get_links(result.node).ok THEN get_links(result.node).node ELSE <<>>]
    /\ UNCHANGED <<threads, orphans, msgs, cur_file, cur_channel, fed, nfiles, finalized, raw>>

NextLinks == MessageFromData \/ GetLinks

SpecLinks == InitParse /\ [][NextLinks]_vars

(***************************************************************************)
(* SlackAPIImporter._paginate_api_call against a client whose method       *)
(* answers from a chain of pages: page 1 is served to a request without a  *)
(* cursor, page i + 1 to a request with the next_cursor of page i, and the  *)
(* last page carries no next cursor.  A request can also fail with a       *)
(* SlackApiError.  raw is the chain; result is the state of the call:      *)
(* its locals (cursor, kwargs, results), the requests made (calls) and     *)
(* the seconds slept (waits).                                              *)
(***************************************************************************)
MaxPages == 3

MaxPageRecords == 2

MaxRetries == 2

\* the keys under which the client's list methods return their records
ListKeys == {"channels", "members", "messages"}

\* the next_cursor that leads to page i
cursor_of(i) == <<"c", ToString(i)>>

\* record j of page i
page_record(i, j) == [page |-> i, n |-> j]

\* the ways the last page of a chain says that it is the last
Endings == {"no-metadata", "no-cursor", "empty-cursor"}

\* the response_metadata of page i of a chain of n pages
metadata_of(i, n, ending) ==
    IF i < n THEN [next_cursor |-> cursor_of(i + 1)]
    ELSE IF ending = "empty-cursor" THEN [next_cursor |-> <<>>]
    ELSE [messages |-> <<>>]

\* the response that is page i of a chain of n pages
page_of(i, n, key, size, ending) ==
    [k \in {"ok", key} \cup (IF i = n /\ ending = "no-metadata" THEN {} ELSE {"response_metadata"}) |->
        IF k = "ok" THEN "true"
        ELSE IF k = key THEN [j \in 1..size |-> page_record(i, j)]
        ELSE metadata_of(i, n, ending)]

Chains(max, maxsize) ==
    UNION { { [i \in 1..n |-> page_of(i, n, key, sizes[i], ending)] :
                key \in ListKeys, ending \in Endings, sizes \in [1..n -> 0..maxsize] } :
            n \in 1..max }

\* the error responses of a request that fails
ErrorResponses ==
    { [error |-> "ratelimited"], [error |-> "ratelimited", retry_after |-> "2"],
      [error |-> "invalid_auth"] }

\* `if cursor:` and `if ... .get("next_cursor"):` -- None and "" are false
truthy(s) == s # None /\ s # <<>>

\* `if cursor: kwargs["cursor"] = cursor`
with_cursor(kwargs, cursor) ==
    IF truthy(cursor)
    THEN [k \in DOMAIN kwargs \cup {"cursor"} |-> IF k = "cursor" THEN cursor ELSE kwargs[k]]
    ELSE kwargs

\* the page the client serves to a request with these arguments
served(chain, kwargs) ==
    IF ~Has(kwargs, "cursor") THEN 1
    ELSE CHOOSE i \in 1..Len(chain) : cursor_of(i) = kwargs.cursor

\* results.extend(response[...]) under the first key the response has
extend(results, response) ==
    IF Has(response, "channels") THEN results \o response.channels
    ELSE IF Has(response, "members") THEN results \o response.members
    ELSE IF Has(response, "messages") THEN results \o response.messages
    ELSE results

\* response.get("response_metadata", {}).get("next_cursor")
next_cursor(response) ==
    IF Has(response, "response_metadata") /\ Has(response.response_metadata, "next_cursor")
    THEN response.response_metadata.next_cursor
    ELSE None

more_pages_never(response) == FALSE

\* `if response.get("response_metadata", {}).get("next_cursor"):`
more_pages(response) == truthy(next_cursor(response))

\* int(e.response.get("retry_after", 1))
retry_after(e) == IF Has(e, "retry_after") THEN CHOOSE n \in 0..9 : ToString(n) = e.retry_after ELSE 1

\* the rate-limited requests made so far
RateLimited(calls) == SelectSeq(calls, LAMBDA c : c.outcome = "ratelimited")

InitPaginate ==
    /\ InitAction
    /\ raw \in Chains(MaxPages, MaxPageRecords)
    /\ result = [status |-> "looping", cursor |-> None, kwargs |-> [types |-> "public_channel"],
                 results |-> <<>>, calls |-> <<>>, waits |-> <<>>]

\* one turn of the loop in which the request succeeds
PageReceived ==
    /\ result.status = "looping"
    /\ LET kwargs == with_cursor(result.kwargs, result.cursor)
           i == served(raw, kwargs)
       IN result' = [result EXCEPT
              !.kwargs = kwargs,
              !.results = extend(result.results, raw[i]),
              !.calls = Append(result.calls, [page |-> i, outcome |-> "ok"]),
              !.cursor = IF more_pages(raw[i]) THEN next_cursor(raw[i]) ELSE result.cursor,
              !.status = IF more_pages(raw[i]) THEN "looping" ELSE "returned"]
    /\ UNCHANGED <<threads, orphans, msgs, cur_file, cur_channel, fed, nfiles, finalized, raw>>

\* one turn of the loop in which the request fails with "ratelimited":
\* _handle_rate_limit sleeps and the loop continues
PageRateLimited ==
    /\ result.status = "looping"
    /\ Len(RateLimited(result.calls)) < MaxRetries
    /\ \E e \in ErrorResponses :
        /\ e.error = "ratelimited"
        /\ LET kwargs == with_cursor(result.kwargs, result.cursor)
           IN result' = [result EXCEPT
                  !.kwargs = kwargs,
                  !.calls = Append(result.calls, [page |-> served(raw, kwargs), outcome |-> "ratelimited"]),
                  !.waits = Append(result.waits, retry_after(e))]
    /\ UNCHANGED <<threads, orphans, msgs, cur_file, cur_channel, fed, nfiles, finalized, raw>>

\* one turn of the loop in which the request fails with another error,
\* which is raised again
PageFailed ==
    /\ result.status = "looping"
    /\ \E e \in ErrorResponses :
        /\ e.error # "ratelimited"
        /\ LET kwargs == with_cursor(result.kwargs, result.cursor)
           IN result' = [result EXCEPT
                  !.kwargs = kwargs,
                  !.calls = Append(result.calls, [page |-> served(raw, kwargs), outcome |-> e.error]),
                  !.status = "raised"]
    /\ UNCHANGED <<threads, orphans, msgs, cur_file, cur_channel, fed, nfiles, finalized, raw>>

NextPaginate == PageReceived \/ PageRateLimited \/ PageFailed

SpecPaginate == InitPaginate /\ [][NextPaginate]_vars

(***************************************************************************)
(* The claims about the content tree and the text leaves.                  *)
(***************************************************************************)
\* C8: for a record that has ts and text, message_from_data returns a Message
\* whatever the blocks payload holds: no call ends in an exception.
C8_ParseNeverRaises ==
    (Has(raw, "ts") /\ Has(raw, "text") /\ result.status # "none") => result.status = "built"

\* every dict of ds has its node in ns, at the same position
AllOk(NodeOk(_, _), ds, ns) == Len(ds) = Len(ns) /\ \A i \in 1..Len(ds) : NodeOk(ds[i], ns[i])

\* the node of a section element: Unknown exactly for an unrecognized type
SectionElementOk(d, n) ==
    IF Has(d, "type") /\ d.type \in SectionElementTypes
    THEN n.cls # "RichTextSectionElementUnknown"
    ELSE n = [cls |-> "RichTextSectionElementUnknown", data |-> d]

\* the node of an item of a rich_text_list, whose recognized type is
\* rich_text_section
ItemOk(d, n) ==
    IF Has(d, "type") /\ d.type = "rich_text_section"
    THEN n.cls = "RichTextSection" /\ AllOk(SectionElementOk, get_elements(d), n.elements)
    ELSE n = [cls |-> "RichTextUnknown", data |-> d]

\* the node of a rich-text element
ElementOk(d, n) ==
    IF Has(d, "type") /\ d.type \in RichTextElementTypes
    THEN IF d.type = "rich_text_list"
         THEN n.cls = "RichTextList" /\ AllOk(ItemOk, get_elements(d), n.elements)
         ELSE /\ n.cls \in {"RichTextSection", "RichTextQuote", "RichTextPreformatted"}
              /\ AllOk(SectionElementOk, get_elements(d), n.elements)
    ELSE n = [cls |-> "RichTextUnknown", data |-> d]

\* the node of a block
BlockOk(d, n) ==
    IF Has(d, "type") /\ d.type \in BlockTypes
    THEN IF d.type = "rich_text"
         THEN n.cls = "BlockRichText" /\ AllOk(ElementOk, get_elements(d), n.elements)
         ELSE n.cls \in {"BlockSection", "BlockContext", "BlockActions"}
    ELSE n = [cls |-> "BlockUnknown", data |-> d]

RECURSIVE SumSeq(_)
SumSeq(ns) == IF ns = <<>> THEN 0 ELSE Head(ns) + SumSeq(Tail(ns))

\* the unrecognized discriminators of a section element, an item, a rich-text
\* element and a block, those below an unrecognized one not counted
SectionElementUnknowns(d) == IF Has(d, "type") /\ d.type \in SectionElementTypes THEN 0 ELSE 1

ItemUnknowns(d) ==
    IF Has(d, "type") /\ d.type = "rich_text_section"
    THEN SumSeq([i \in 1..Len(get_elements(d)) |-> SectionElementUnknowns(get_elements(d)[i])])
    ELSE 1

ElementUnknowns(d) ==
    IF Has(d, "type") /\ d.type \in RichTextElementTypes
    THEN IF d.type = "rich_text_list"
         THEN SumSeq([i \in 1..Len(get_elements(d)) |-> ItemUnknowns(get_elements(d)[i])])
         ELSE SumSeq([i \in 1..Len(get_elements(d)) |-> SectionElementUnknowns(get_elements(d)[i])])
    ELSE 1

BlockUnknowns(d) ==
    IF Has(d, "type") /\ d.type \in BlockTypes
    THEN IF d.type = "rich_text"
         THEN SumSeq([i \in 1..Len(get_elements(d)) |-> ElementUnknowns(get_elements(d)[i])])
         ELSE 0
    ELSE 1

\* the diagnostics of an unrecognized discriminator
UnknownTypeDiagnostics ==
    {i \in 1..Len(msgs) : msgs[i].type \in {"unknown-block-type", "unknown-rich-text-element-type",
                                            "unknown-rich-text-section-type"}}

\* C9: in the tree of a built message every dict with an unrecognized type, at
\* the level of the blocks, the rich-text elements, the items of a
\* rich_text_list and the section elements, has an Unknown node at its
\* position, every dict with a recognized type has a node that is not Unknown,
\* and the log holds one unknown-type diagnostic per unrecognized type.
C9_UnknownNodes ==
    result.status = "built" =>
        /\ AllOk(BlockOk, raw.blocks, result.node.blocks)
        /\ Cardinality(UnknownTypeDiagnostics) = SumSeq([i \in 1..Len(raw.blocks) |-> BlockUnknowns(raw.blocks[i])])

\* s[i] bounds a token: whitespace, a colon, or an edge of the string
IsBoundary(s, i) == i < 1 \/ i > Len(s) \/ IsSpace(s[i]) \/ s[i] = ":"

\* a token :name: starts at p and is bounded on both sides
TokenAt(s, p) ==
    /\ p <= Len(s)
    /\ s[p] = ":"
    /\ NameEnd(s, p + 1) > p + 1
    /\ NameEnd(s, p + 1) <= Len(s)
    /\ s[NameEnd(s, p + 1)] = ":"
    /\ IsBoundary(s, p - 1)
    /\ IsBoundary(s, NameEnd(s, p + 1) + 1)

RECURSIVE tokens_replaced(_, _)
\* the text from position i on with every bounded token replaced by its emoji
\* when the table has one, and every other character kept
tokens_replaced(s, i) ==
    IF i > Len(s) THEN <<>>
    ELSE IF TokenAt(s, i)
         THEN LET q == NameEnd(s, i + 1)
                  name == SubSeq(s, i + 1, q - 1)
              IN  (IF name \in DOMAIN ShortcodeToEmoji THEN ShortcodeToEmoji[name] ELSE SubSeq(s, i, q))
                  \o tokens_replaced(s, q + 1)
         ELSE <<s[i]>> \o tokens_replaced(s, i + 1)

\* C10: the text of a text leaf is the input with every bounded token :name:
\* replaced by the emoji of the table, or left as it is when the table has
\* none, and every other character, the bounding whitespace and colons
\* included, kept in place.
C10_OnlyTokensChange ==
    result.status = "built" => result.node.text = tokens_replaced(raw.text, 1)

(***************************************************************************)
(* The legacy text grammar, stated over the ways to cut a text in pieces.  *)
(***************************************************************************)
RECURSIVE SortedSeq(_)
\* the elements of a set of numbers in increasing order
SortedSeq(S) ==
    IF S = {} THEN <<>>
    ELSE <<CHOOSE x \in S : \A y \in S : x <= y>> \o SortedSeq(S \ {CHOOSE x \in S : \A y \in S : x <= y})

\* the pieces lo..hi a text of n characters falls into when it is cut after
\* the positions of cuts
Pieces(n, cuts) ==
    [k \in 1..Cardinality(cuts \cup {0, n}) - 1 |->
        [lo |-> SortedSeq(cuts \cup {0, n})[k] + 1, hi |-> SortedSeq(cuts \cup {0, n})[k + 1]]]

\* the piece is a <...> span: from a "<" to the first ">" after it, with no
\* character of barred between them
IsBracketSpan(text, p, barred) ==
    /\ p.hi > p.lo
    /\ text[p.lo] = "<"
    /\ text[p.hi] = ">"
    /\ \A k \in (p.lo + 1)..(p.hi - 1) : text[k] \notin barred

\* a <...> span starts at character i
OpensSpan(text, i, barred) ==
    /\ text[i] = "<"
    /\ \E j \in (i + 1)..Len(text) : text[j] = ">" /\ \A k \in (i + 1)..(j - 1) : text[k] \notin barred

\* the piece lies outside every span: no span starts in it
IsOutsideRun(text, p, barred) == \A i \in p.lo..p.hi : ~OpensSpan(text, i, barred)

\* the pieces are the leftmost non-overlapping spans and the maximal runs
\* between, before and after them
IsSegmentation(text, ps, barred) ==
    /\ \A k \in 1..Len(ps) : IsBracketSpan(text, ps[k], barred) \/ IsOutsideRun(text, ps[k], barred)
    /\ \A k \in 1..(Len(ps) - 1) : ~(IsOutsideRun(text, ps[k], barred) /\ IsOutsideRun(text, ps[k + 1], barred))

\* the characters of a piece
PieceText(text, p) == SubSeq(text, p.lo, p.hi)

\* the characters between the brackets of a span
SpanContent(text, p) == SubSeq(text, p.lo + 1, p.hi - 1)

\* the elements are, in source order, one reference leaf for every span and
\* one text leaf holding every run of the pieces
LeavesOfPieces(text, elements, ps, barred) ==
    /\ Len(elements) = Len(ps)
    /\ \A k \in 1..Len(ps) :
          IF IsBracketSpan(text, ps[k], barred)
          THEN elements[k].type \in {"user", "channel", "broadcast", "link"}
          ELSE elements[k] = text_element(PieceText(text, ps[k]))

\* the elements are the leaves of the one way to cut the text in spans and
\* maximal runs outside them
LeavesOfSpansAndRuns(text, elements, barred) ==
    \E cuts \in SUBSET (1..(Len(text) - 1)) :
        /\ IsSegmentation(text, Pieces(Len(text), cuts), barred)
        /\ LeavesOfPieces(text, elements, Pieces(Len(text), cuts), barred)

\* C11 as stated: the elements parse_raw_slack_text_field_to_json returns are,
\* in source order, one reference leaf for every leftmost non-overlapping
\* <...> span of the text, whatever is between the brackets, and one text
\* leaf holding every non-empty maximal run outside the spans, so that the
\* pieces put together are the text.
C11_SpansAndRuns == result.status = "built" => LeavesOfSpansAndRuns(raw, result.node, {">"})

\* C11, amended: the same for the <...> spans that hold no line break; a
\* bracket pair with a line break between the brackets is literal text.
C11_LineSpansAndRuns == result.status = "built" => LeavesOfSpansAndRuns(raw, result.node, {">", "\n"})

\* a text before a span, the span, and trailing text after it; and a bracket
\* pair around a line break kept as text
C11_Witness ==
    /\ result.status = "built"
    /\ \/ /\ Len(result.node) = 3
          /\ result.node[1].type = "text"
          /\ result.node[2].type # "text"
          /\ result.node[3].type = "text"
       \/ /\ raw = <<"<", "\n", ">", "<", ">">>
          /\ Len(result.node) = 2

\* the leaf the grammar gives a span with this content: the id of a mention
\* ends before an optional |display suffix
ClaimedReference(c) ==
    IF c # <<>> /\ Head(c) = "@" THEN [type |-> "user", user_id |-> Join(before_bar(Tail(c)))]
    ELSE IF c # <<>> /\ Head(c) = "#" THEN [type |-> "channel", channel_id |-> Join(before_bar(Tail(c)))]
    ELSE IF c # <<>> /\ Head(c) = "!" THEN [type |-> "broadcast", range |-> Join(before_bar(Tail(c)))]
    ELSE IF \E i \in 1..Len(c) : c[i] = "|" THEN [type |-> "link", url |-> before_bar(c), text |-> after_bar(c)]
    ELSE [type |-> "link", url |-> c]

\* C12: in a text without line breaks every <...> span becomes the leaf its
\* content selects: a user, channel or broadcast mention for a leading @, #
\* or ! with the id up to an optional |display suffix, a link with display
\* text for a content with | and no sigil, a bare-URL link otherwise.
C12_SpanClassified ==
    (result.status = "built" /\ \A i \in 1..Len(raw) : raw[i] # "\n") =>
        \A cuts \in SUBSET (1..(Len(raw) - 1)) :
            IsSegmentation(raw, Pieces(Len(raw), cuts), {">"}) =>
                /\ Len(result.node) = Len(Pieces(Len(raw), cuts))
                /\ \A k \in 1..Len(result.node) :
                      IsBracketSpan(raw, Pieces(Len(raw), cuts)[k], {">"}) =>
                          result.node[k] = ClaimedReference(SpanContent(raw, Pieces(Len(raw), cuts)[k]))

(***************************************************************************)
(* message_from_data: the fatal errors and the author.                     *)
(***************************************************************************)
\* C13: message_from_data raises and returns no Message whenever the record
\* has no ts or no text, with or without blocks; the Message it returns
\* holds the ts and the text of the record.
C13_TsAndTextRequired ==
    result # NotRun =>
        /\ (~Has(raw, "ts") \/ ~Has(raw, "text")) => result.status = "raised"
        /\ result.status = "built" =>
              /\ Has(raw, "ts") /\ result.node.ts = raw.ts
              /\ Has(raw, "text") /\ result.node.text = raw.text

\* a record with blocks that build and with text but without ts has failed
\* the assertion, and one without blocks has built a Message from its text
C13_Witness ==
    \/ /\ result.status = "raised"
       /\ result.exc = "AssertionError"
       /\ Has(raw, "blocks") /\ Has(raw, "text") /\ ~Has(raw, "ts")
    \/ /\ result.status = "built"
       /\ ~Has(raw, "blocks")
       /\ raw.text = MentionText

\* the diagnostics the blocks of the record leave in an empty log
BlockDiagnostics(d) == blocks_from_data(raw_blocks(d), Ok(<<>>, <<>>)).log

\* the author was resolved: the blocks were built, whether or not the
\* assertions then held
AuthorResolved == result.status = "built" \/ (result.status = "raised" /\ result.exc = "AssertionError")

\* the diagnostics recorded after those of the blocks
AuthorDiagnostics == SubSeq(msgs, Len(BlockDiagnostics(raw)) + 1, Len(msgs))

\* the author and the types of the diagnostics the table gives a record
AuthorTable(d) ==
    IF ~Has(d, "user")
    THEN IF Has(d, "subtype") /\ d.subtype = "bot_message"
         THEN [user |-> [cls |-> "Bot", id |-> IF Has(d, "bot_id") THEN d.bot_id ELSE NoneId,
                         name |-> IF Has(d, "username") THEN d.username ELSE NoneId],
               diagnostics |-> <<>>]
         ELSE IF Has(d, "subtype") /\ d.subtype = "file_comment"
         THEN [user |-> AnonymousUser, diagnostics |-> <<>>]
         ELSE [user |-> AnonymousUser,
               diagnostics |-> IF Has(d, "is_hidden_by_limit") THEN <<>> ELSE <<"user-id-is-none">>]
    ELSE IF d.user \in {"U1", "U2", "USLACKBOT"}
         THEN [user |-> UsersById[d.user], diagnostics |-> <<>>]
         ELSE [user |-> AnonymousUser, diagnostics |-> <<"user-id-not-found">>]

C15_MentionResolved ==
    result # NotRun =>
        /\ result.status = "built"
        /\ raw.type = "user" =>
              IF raw.user_id \in {"U1", "U2", "USLACKBOT"}
              THEN result.node.user = UsersById[raw.user_id] /\ msgs = <<>>
              ELSE /\ result.node.cls = "RichTextSectionElementUser"
                   /\ result.node.user = [cls |-> "User", id |-> raw.user_id, name |-> raw.user_id]
                   /\ Len(msgs) = 1 /\ msgs[1].type = "user-id-not-found"
        /\ raw.type = "channel" =>
              IF raw.channel_id \in {"C1", "C2"}
              THEN result.node.channel = ChannelsById[raw.channel_id] /\ msgs = <<>>
              ELSE /\ result.node.cls = "RichTextSectionElementChannel"
                   /\ result.node.channel = Channel(raw.channel_id, raw.channel_id, FALSE)
                   /\ Len(msgs) = 1 /\ msgs[1].type = "channel-id-not-found"

(***************************************************************************)
(* The channel registry.                                                   *)
(***************************************************************************)
\* the current names of the channels of an array
CurrentNames(items) == {items[i].name : i \in 1..Len(items)}

\* the channels of an array that list name among their previous names
ListedBy(items, name) == {i \in 1..Len(items) : name \in Range(get_previous_names(items[i]))}

\* C16: after parse_channels, whatever the order of the array, the current
\* name of a channel resolves by from_name to an entry that is no alias and
\* belongs to a channel with that current name; a previous name that is the
\* current name of no channel resolves to an alias entry with the id of a
\* channel that lists it in previous_names.
C16_NamesResolve ==
    result.status = "built" =>
        /\ \A n \in CurrentNames(raw) :
              /\ ~Channels_from_name(result.node, n).is_old_name
              /\ Channels_from_name(result.node, n).name = n
              /\ \E i \in 1..Len(raw) : raw[i].name = n /\ raw[i].id = Channels_from_name(result.node, n).id
        /\ \A n \in ChannelNames \ CurrentNames(raw) :
              ListedBy(raw, n) # {} =>
                  /\ Channels_from_name(result.node, n).is_old_name
                  /\ \E i \in ListedBy(raw, n) : raw[i].id = Channels_from_name(result.node, n).id

\* a channel listed the current name of a later channel among its previous
\* names, and a previous name that no channel bears became an alias
C16_Witness ==
    /\ result.status = "built"
    /\ Len(raw) = 2
    /\ raw[1].id = "C1" /\ raw[2].id = "C2"
    /\ raw[2].name \in Range(get_previous_names(raw[1]))
    /\ raw[1].name # raw[2].name
    /\ Channels_from_name(result.node, raw[2].name).id = "C2"
    /\ \E n \in ChannelNames \ CurrentNames(raw) : Channels_from_name(result.node, n).is_old_name

(***************************************************************************)
(* The claims about the renderings of the mdom nodes.                      *)
(***************************************************************************)
\* the renderings of the children of the node rendered, in order
ChildHtmls == [i \in 1..Len(raw.childs) |-> to_html(raw.childs[i])]

ChildTexts == [i \in 1..Len(raw.childs) |-> to_text(raw.childs[i])]

\* e is an inline element that holds one space and nothing else
IsSpaceSpan(e) == e.tag = "span" /\ e.text = <<" ">> /\ e.childs = <<>>

\* C17: the HTML of a Group with n children holds the n child renderings in
\* order with exactly one space-only span between every adjacent pair, n - 1
\* spans in all, and its text is the children's texts joined by one space.
C17_GroupSpaced ==
    raw.cls = "Group" =>
        /\ result.status = "html" =>
              /\ Len(result.node.childs) = (IF Len(raw.childs) = 0 THEN 0 ELSE 2 * Len(raw.childs) - 1)
              /\ \A i \in 1..Len(raw.childs) : result.node.childs[2 * i - 1] = ChildHtmls[i]
              /\ \A i \in 1..(Len(raw.childs) - 1) : IsSpaceSpan(result.node.childs[2 * i])
        /\ result.status = "text" => result.node = str_join(<<" ">>, ChildTexts)

\* the classes of the structural nodes
StructuralClasses == {"Section", "Block", "Paragraph", "Quote", "Preformatted", "List", "OrderedList"}

\* the semantic kind of a structural node: its type, or its class where it
\* has no type
KindOf(n) == IF n.cls \in {"List", "OrderedList"} THEN n.cls ELSE n.type

\* the children of the container e are the rendered children of the node, in
\* order, each inside an li for the two lists
WrapsChildren(n, e) ==
    /\ e.text = None
    /\ Len(e.childs) = Len(n.childs)
    /\ \A i \in 1..Len(n.childs) :
          IF n.cls \in {"List", "OrderedList"}
          THEN e.childs[i] = Element("li", <<>>, None, <<to_html(n.childs[i])>>)
          ELSE e.childs[i] = to_html(n.childs[i])

TagOf(cls) ==
    CASE cls = "Section" -> "section"
      [] cls = "Block" -> "div"
      [] cls = "Paragraph" -> "p"
      [] cls = "Quote" -> "blockquote"
      [] cls = "Preformatted" -> "pre"
      [] cls = "List" -> "ul"
      [] cls = "OrderedList" -> "ol"

MarkerOf(cls, i) == IF cls = "List" THEN <<"*", " ">> ELSE <<ToString(i), ".", " ">>

\* C19: the text of a List or an OrderedList with n >= 1 items puts every
\* item, the first included, on its own line after the marker of its kind,
\* the items separated by a single newline.
C19_ItemsMarked ==
    (raw.cls \in {"List", "OrderedList"} /\ Len(raw.childs) >= 1 /\ result.status = "text") =>
        result.node = str_join(<<"\n">>, [i \in 1..Len(raw.childs) |-> MarkerOf(raw.cls, i) \o ChildTexts[i]])

(***************************************************************************)
(* The claims about the text of the threads.                               *)
(***************************************************************************)
\* the text rendering of one message
MessageText(m) == to_text(Message_to_mdom(m))

\* the renderings of the root and of the replies of th, in that order
ThreadTexts(th) == <<MessageText(th.message)>> \o [i \in 1..Len(th.replies) |-> MessageText(th.replies[i])]

\* the stream is one root and one reply to it, in either order
OneRootOneReply(stream) ==
    /\ Len(stream) = 2
    /\ \E i, j \in 1..2 :
          /\ i # j
          /\ ~Has(stream[i], "thread_ts") \/ stream[i].thread_ts = stream[i].ts
          /\ Has(stream[j], "thread_ts")
          /\ stream[j].thread_ts = stream[i].ts
          /\ stream[j].ts # stream[i].ts

\* C20: once the threads are finalized, the text printed for each thread is
\* the rendering of its root first and then the rendering of every reply,
\* once each, in the order of the thread's reply sequence, a blank line
\* between two renderings; a stream of one root and one reply to it yields
\* exactly one thread, with exactly one reply.
C20_RootThenReplies ==
    result.status = "printed" =>
        /\ Len(result.node) = Len(threads)
        /\ \A i \in 1..Len(result.node) :
              result.node[i] = str_join(<<"\n", "\n">>, ThreadTexts(get_sorted_messages_by_ts(threads)[i]))
        /\ OneRootOneReply(raw) =>
              /\ Len(threads) = 1
              /\ Len(threads[1].replies) = 1
              /\ threads[1].message.ts # threads[1].replies[1].ts

\* a thread of a root and two replies of different texts was printed, its
\* text starting with the rendering of the root
C20_Witness ==
    /\ result.status = "printed"
    /\ Len(threads) = 1
    /\ Len(threads[1].replies) = 2
    /\ threads[1].replies[1].text # threads[1].replies[2].text
    /\ threads[1].message.text # threads[1].replies[1].text
    /\ SubSeq(result.node[1], 1, Len(MessageText(threads[1].message))) = MessageText(threads[1].message)

(***************************************************************************)
(* The claims about the walk of the archive.                               *)
(***************************************************************************)
\* the record is of type "message"
IsMessageRecord(rec) == Has(rec, "type") /\ rec.type = "message"

\* the record is a canvas marker
IsCanvasMarker(rec) == Has(rec, "mimetype") /\ rec.mimetype = CanvasMime

\* the diagnostics of the log of one type
OfType(log, type_) == SelectSeq(log, LAMBDA e : e.type = type_)

\* C21: on_msg builds and forwards a Message only for a record of type
\* "message"; any other record forwards no Message, leaves threads and
\* orphans as they are, and records exactly one "unknown-message-type"
\* diagnostic about it, unless it is a canvas marker, which records nothing.
C21_OnlyMessagesForwarded ==
    [][ result'.n = result.n + 1 =>
          IF IsMessageRecord(raw[result'.n])
          THEN /\ Len(fed') = Len(fed) + (IF result'.status = "raised" THEN 0 ELSE 1)
               /\ OfType(msgs', "unknown-message-type") = OfType(msgs, "unknown-message-type")
          ELSE /\ fed' = fed /\ threads' = threads /\ orphans' = orphans
               /\ result'.status = "reading"
               /\ msgs' = (IF IsCanvasMarker(raw[result'.n]) THEN msgs
                           ELSE Append(msgs, [level |-> "warn", type |-> "unknown-message-type",
                                              data |-> [message |-> raw[result'.n]]])) ]_vars

\* a canvas marker and then a record of another type were read: no Message,
\* one diagnostic
C21_Witness ==
    /\ result.status = "reading"
    /\ result.n = 2
    /\ ~IsMessageRecord(raw[1]) /\ IsCanvasMarker(raw[1])
    /\ ~IsMessageRecord(raw[2]) /\ ~IsCanvasMarker(raw[2])
    /\ Len(msgs) = 1
    /\ fed = <<>>

FileCalls(archive, f) ==
    <<[call |-> "before_file", file |-> ArchiveFiles[f]]>>
    \o [i \in 1..Len(archive[f]) |->
          [call |-> "on_msg", file |-> ArchiveFiles[f], record |-> i, channel |-> from_name(ArchiveFiles[f])]]
    \o <<[call |-> "after_file"]>>

RECURSIVE FilesCalls(_, _)
\* the calls of the protocol on the files from f on, in the order of the list
FilesCalls(archive, f) ==
    IF f > Len(archive) THEN <<>> ELSE FileCalls(archive, f) \o FilesCalls(archive, f + 1)

\* the calls of the protocol on an archive
ProtocolCalls(archive) == <<[call |-> "before_all"]>> \o FilesCalls(archive, 1) \o <<[call |-> "after_all"]>>

\* the number of records of an archive
RECURSIVE RecordCount(_, _)
RecordCount(archive, f) == IF f > Len(archive) THEN 0 ELSE Len(archive[f]) + RecordCount(archive, f + 1)

\* C23: the calls walk_archive makes on the action are at every moment the
\* first calls of the protocol (before_all once; for each file of the list
\* in order before_file, on_msg once per record in array order, after_file;
\* after_all once, last) and all of them once it returns; process_orphans
\* has run only if every record of every file was fed, and every on_msg ran
\* under the channel its before_file set.
C23_WalkProtocol ==
    /\ Len(result.calls) <= Len(ProtocolCalls(raw))
    /\ result.calls = SubSeq(ProtocolCalls(raw), 1, Len(result.calls))
    /\ result.status = "returned" => result.calls = ProtocolCalls(raw)
    /\ finalized > 0 => Len(fed) = RecordCount(raw, 1)
    /\ finalized = 0 => \A i \in 1..Len(msgs) : msgs[i].type # "orphan-msg"

\* the walk returned after two files of two records each, the reply of the
\* first file replayed at the end under a root of a later file
C23_Witness ==
    /\ result.status = "returned"
    /\ Len(raw[1]) = 2 /\ Len(raw[3]) = 2
    /\ \A i \in 1..2 : Has(raw[1][i], "thread_ts")
    /\ ~Has(raw[3][1], "thread_ts")
    /\ Len(threads) = 1
    /\ Len(threads[1].replies) >= 2

(***************************************************************************)
(* The claims about the threads after the stream.                          *)
(***************************************************************************)
\* the threads whose current root is m
RootPlaces(m) == {i \in 1..Len(threads) : threads[i].message = m}

\* the positions of the reply sequences that hold m
ReplyPlaces(m) == {<<i, j>> \in (1..Len(threads)) \X (1..MaxFed) : j <= Len(threads[i].replies) /\ threads[i].replies[j] = m}

\* the "orphan-msg" diagnostics about m
OrphanDiagnostics(m) == {k \in 1..Len(msgs) : msgs[k].type = "orphan-msg" /\ msgs[k].data.message = m}

\* m was a root, and a root with the same ts was fed after it
WasReplaced(m) == IsRoot(m) /\ \E k \in 1..Len(fed) : k > m.id /\ IsRoot(fed[k]) /\ fed[k].ts = m.ts

\* C24: after a stream of messages and one process_orphans, every message
\* fed is in exactly one place: the current root of exactly one thread, a
\* root replaced by a later root of the same ts, exactly one position of
\* exactly one reply sequence, or dropped with exactly one "orphan-msg"
\* diagnostic.
C24_MessageAccounting ==
    finalized = 1 =>
        \A k \in 1..Len(fed) :
            Cardinality(RootPlaces(fed[k])) + Cardinality(ReplyPlaces(fed[k]))
            + Cardinality(OrphanDiagnostics(fed[k])) + (IF WasReplaced(fed[k]) THEN 1 ELSE 0) = 1

\* after process_orphans a stream of three messages has one in each of
\* three places: a replaced root, a current root and a dropped orphan
C24_Witness ==
    /\ finalized = 1
    /\ Len(fed) = 3
    /\ \E a, b, c \in 1..3 :
          /\ WasReplaced(fed[a])
          /\ RootPlaces(fed[b]) # {}
          /\ OrphanDiagnostics(fed[c]) # {}

\* C25: once process_orphans has run, running it again leaves every
\* thread's root and reply sequence as they are and records no further
\* diagnostic.
C25_FinalizationFreezes ==
    [][(finalized >= 1 /\ finalized' > finalized) => (threads' = threads /\ msgs' = msgs)]_vars

\* C26: every Thread created during a walk has a Channel object as its
\* channel, never an absent value, whatever the file it was read from, a
\* file of a directory the registry does not list included.
C26_ThreadHasChannel ==
    \A i \in 1..Len(threads) : threads[i].channel # NoChannel

\* the on_msg calls that handed a message equal to m to the action, in a
\* file of channel c
FedUnder(m, c) ==
    {k \in 1..Len(result.calls) :
        /\ result.calls[k].call = "on_msg"
        /\ result.calls[k].channel = c
        /\ LET f == CHOOSE f \in 1..Len(ArchiveFiles) : ArchiveFiles[f] = result.calls[k].file
           IN  message_from_data(raw[f][result.calls[k].record], <<>>).node = m}

\* C29: once the walk returned, the root and every reply of every thread
\* were read from a file of the thread's channel: no thread combines
\* messages of the files of two channels, and no root read from the file of
\* another channel has replaced the root of a thread.
C29_ThreadOfOneChannel ==
    result.status = "returned" =>
        \A i \in 1..Len(threads) :
            /\ FedUnder(threads[i].message, threads[i].channel) # {}
            /\ \A j \in 1..Len(threads[i].replies) : FedUnder(threads[i].replies[j], threads[i].channel) # {}

\* C28: a message_from_data call that fails on a record without ts or
\* without text leaves the diagnostic log as it was before the call.
C28_FailedBuildLogsNothing ==
    (result.status = "raised" /\ (~Has(raw, "ts") \/ ~Has(raw, "text"))) => msgs = <<>>

RECURSIVE LinkLeaves(_)
\* the link leaves of a forest of the content tree, in document order
LinkLeaves(nodes) ==
    IF nodes = <<>> THEN <<>>
    ELSE (IF Head(nodes).cls = "RichTextSectionElementLink" THEN <<Head(nodes)>>
          ELSE IF Has(Head(nodes), "elements") THEN LinkLeaves(Head(nodes).elements)
          ELSE <<>>)
         \o LinkLeaves(Tail(nodes))

\* C27: for every message that was built, get_links returns without raising,
\* Unknown rich-text elements in the tree or not, and returns exactly the
\* link leaves of the content tree, each once and in document order, those
\* inside the items of a rich-text list included.
C27_LinksOfTree ==
    result.status \in {"links", "links-raised"} =>
        /\ result.status = "links"
        /\ result.links = LinkLeaves(result.node.blocks)

\* the pages of the requests that succeeded, in the order of the requests
PagesReceived(calls) ==
    [j \in 1..Len(SelectSeq(calls, LAMBDA c : c.outcome = "ok")) |->
        SelectSeq(calls, LAMBDA c : c.outcome = "ok")[j].page]

RECURSIVE RecordsOfPages(_, _)
\* the records of pages 1..k of a chain, page after page
RecordsOfPages(chain, k) ==
    IF k = 0 THEN <<>>
    ELSE RecordsOfPages(chain, k - 1) \o extend(<<>>, chain[k])

\* C30: whatever "ratelimited" errors come in between, _paginate_api_call
\* asks for the pages of the chain in chain order, each received once; a
\* rate-limited request adds no record and is followed by a request for the
\* same page; the records collected are those of the pages received, page
\* after page; and the call returns exactly when the last page of the chain
\* has been received, never raising on a "ratelimited" error.
C30_PagesOnceInOrder ==
    LET calls == result.calls
        received == PagesReceived(calls)
    IN  /\ DOMAIN result = {"status", "cursor", "kwargs", "results", "calls", "waits"}
        /\ received = [j \in 1..Len(received) |-> j]
        /\ \A j \in 1..Len(calls) :
              calls[j].page = 1 + Len(PagesReceived(SubSeq(calls, 1, j - 1)))
        /\ result.results = RecordsOfPages(raw, Len(received))
        /\ Len(result.waits) = Len(RateLimited(calls))
        /\ result.status = "returned" <=> Len(received) = Len(raw)
        /\ result.status = "raised" <=>
              (calls # <<>> /\ calls[Len(calls)].outcome \notin {"ok", "ratelimited"})

\* a chain of three pages was read to its end, with a rate-limited request
\* before the second page and another before the third
C30_Witness ==
    /\ result.status = "returned"
    /\ Len(raw) = 3
    /\ Len(result.results) >= 3
    /\ Len(result.calls) = 5
    /\ result.calls[2].outcome = "ratelimited"
    /\ result.calls[4].outcome = "ratelimited"
====
